---------------------------- MODULE Spec2Model ----------------------------
(***************************************************************************)
(* CapAssigner core: SP-tree enumeration and ranking, canonical            *)
(* expressions, Laplacian equivalent capacitance, seeded heuristic graph   *)
(* search and the SP-graph exhaustive reducer.                             *)
(*                                                                         *)
(* Capacitances are exact rationals <<num, den>> counted in picofarads:    *)
(* 1 stands for 1e-12 F, so the absolute thresholds 1e-15 F of the code    *)
(* are the rational 1/1000.  Floating-point rounding is not modelled.      *)
(* Strings that the code compares or sorts are sequences of character      *)
(* codes, so that sorting them is the code-point order Python uses.        *)
(***************************************************************************)
EXTENDS Integers, Sequences, FiniteSets, TLC

(***************************************************************************)
(* Bounds of the model                                                     *)
(***************************************************************************)
MaxCaps == 3
MaxTopK == 3

(***************************************************************************)
(* Exact rational arithmetic                                               *)
(***************************************************************************)
\* TLC evaluates the operands of an operator and the definitions of a LET
\* on demand, once per use.  A value that is used more than once is bound
\* to a name with The({e : v \in {x}}): e with v standing for the value of
\* x.  Then(a, b) is b, after the function a has been tabulated.
The(S) == CHOOSE x \in S : TRUE
Then(a, b) == IF a = a THEN b ELSE b

Abs(n) == IF n < 0 THEN -n ELSE n

RECURSIVE Gcd(_, _)
Gcd(a, b) == IF b = 0 THEN a ELSE Gcd(b, a % b)

\* the fraction n / d in lowest terms with a positive denominator
Norm(n, d) ==
  The({IF y < 0 THEN <<(-x) \div g, (-y) \div g>> ELSE <<x \div g, y \div g>> :
         g \in {Gcd(Abs(n), Abs(d))}, x \in {n}, y \in {d}})

Q(n) == <<n, 1>>
RAdd(a, b) ==
  The({The({Norm(x[1] * (y[2] \div g) + y[1] * (x[2] \div g),
                 (x[2] \div g) * y[2]) : g \in {Gcd(x[2], y[2])}}) :
         x \in {a}, y \in {b}})
RNeg(a) == The({<<-x[1], x[2]>> : x \in {a}})
RSub(a, b) == RAdd(a, RNeg(b))
RMul(a, b) ==
  The({The({<<p[1] * q[1], p[2] * q[2]>> :
              p \in {Norm(x[1], y[2])}, q \in {Norm(y[1], x[2])}}) :
         x \in {a}, y \in {b}})
RDiv(a, b) == The({RMul(a, Norm(y[2], y[1])) : y \in {b}})
RAbs(a) == The({<<Abs(x[1]), x[2]>> : x \in {a}})
RLess(a, b) == \E x \in {a}, y \in {b} : x[1] * y[2] < y[1] * x[2]
RLeq(a, b) == \E x \in {a}, y \in {b} : x[1] * y[2] <= y[1] * x[2]
RMax(a, b) == The({IF RLess(x, y) THEN y ELSE x : x \in {a}, y \in {b}})

(***************************************************************************)
(* Sequence helpers                                                        *)
(***************************************************************************)
Min(a, b) == IF a < b THEN a ELSE b

\* Python slice s[:k] for k >= 0
Take(s, k) == SubSeq(s, 1, Min(k, Len(s)))

RECURSIVE Concat(_)
Concat(ss) == IF ss = <<>> THEN <<>> ELSE Head(ss) \o Concat(Tail(ss))

\* an iteration order that descends
RECURSIVE SubsetListDescending(_)
SubsetListDescending(S) ==
  IF S = {} THEN <<>>
  ELSE LET m == CHOOSE x \in S : \A y \in S : y <= x
       IN  <<m>> \o SubsetListDescending(S \ {m})

\* list(frozenset of small ints): CPython hashes an int to itself, so for
\* indices below the minimum table size 8 the iteration order is ascending.
RECURSIVE SubsetList(_)
SubsetList(S) ==
  IF S = {} THEN <<>>
  ELSE LET m == CHOOSE x \in S : \A y \in S : x <= y
       IN  <<m>> \o SubsetList(S \ {m})

SeqToSet(s) == {s[i] : i \in 1..Len(s)}

(***************************************************************************)
(* Strings as sequences of character codes                                 *)
(***************************************************************************)
ChLParen == 40
ChRParen == 41
ChPlus == 43
ChZero == 48
ChC == 67
ChBar == 124

RECURSIVE Digits(_)
Digits(n) == IF n < 10 THEN <<ChZero + n>>
             ELSE Digits(n \div 10) \o <<ChZero + (n % 10)>>

\* Python str comparison a < b (lexicographic on code points)
RECURSIVE StrLess(_, _)
StrLess(a, b) ==
  IF b = <<>> THEN FALSE
  ELSE IF a = <<>> THEN TRUE
  ELSE IF Head(a) # Head(b) THEN Head(a) < Head(b)
  ELSE StrLess(Tail(a), Tail(b))

\* list.sort() on strings: stable insertion into an ascending list
RECURSIVE StrInsert(_, _)
StrInsert(sorted, x) ==
  IF sorted = <<>> THEN <<x>>
  ELSE IF StrLess(x, Head(sorted)) THEN <<x>> \o sorted
  ELSE <<Head(sorted)>> \o StrInsert(Tail(sorted), x)

RECURSIVE StrSort(_)
StrSort(l) == IF l = <<>> THEN <<>>
              ELSE StrInsert(StrSort(SubSeq(l, 1, Len(l) - 1)), l[Len(l)])

RECURSIVE Join(_, _)
Join(sep, l) ==
  IF l = <<>> THEN <<>>
  ELSE IF Len(l) = 1 THEN l[1]
  ELSE l[1] \o sep \o Join(sep, Tail(l))

\* f"C{i+1}" for i in range(n)
capacitor_labels(n) == [i \in 0..(n - 1) |-> <<ChC>> \o Digits(i + 1)]

(***************************************************************************)
(* SP trees (sp_structures.py)                                             *)
(***************************************************************************)
Leaf(i, v) == [op |-> "Leaf", capacitor_index |-> i, value |-> v]
Series(l, r) == [op |-> "Series", left |-> l, right |-> r]
Parallel(l, r) == [op |-> "Parallel", left |-> l, right |-> r]

\* Result of calculate_sp_ceq: the value, or the ZeroDivisionError it raises
RECURSIVE calculate_sp_ceq(_)
calculate_sp_ceq(node) ==
  IF node.op = "Leaf" THEN [raised |-> FALSE, value |-> node.value]
  ELSE LET l == calculate_sp_ceq(node.left)
           r == calculate_sp_ceq(node.right)
       IN  IF l.raised \/ r.raised THEN [raised |-> TRUE, value |-> Q(0)]
           ELSE IF node.op = "Series"
           THEN IF l.value = Q(0) \/ r.value = Q(0)
                THEN [raised |-> TRUE, value |-> Q(0)]
                ELSE [raised |-> FALSE,
                      value |-> RDiv(Q(1), RAdd(RDiv(Q(1), l.value),
                                                RDiv(Q(1), r.value)))]
           ELSE [raised |-> FALSE, value |-> RAdd(l.value, r.value)]

OpString(op) == IF op = "Series" THEN <<ChPlus>> ELSE <<ChBar, ChBar>>

RECURSIVE sp_node_to_expression(_, _)
sp_node_to_expression(node, labels) ==
  IF node.op = "Leaf" THEN labels[node.capacitor_index]
  ELSE <<ChLParen>> \o sp_node_to_expression(node.left, labels)
       \o OpString(node.op)
       \o sp_node_to_expression(node.right, labels) \o <<ChRParen>>

RECURSIVE sp_node_to_normalized_expression(_, _)
RECURSIVE collect_operands(_, _, _)
collect_operands(node, op_type, labels) ==
  IF node.op = op_type
  THEN collect_operands(node.left, op_type, labels)
       \o collect_operands(node.right, op_type, labels)
  ELSE <<sp_node_to_normalized_expression(node, labels)>>

\* operands left in the order they were collected
OperandsUnsorted(operands) == operands

\* operands.sort()
OperandSort(operands) == StrSort(operands)

sp_node_to_normalized_expression(node, labels) ==
  IF node.op = "Leaf" THEN labels[node.capacitor_index]
  ELSE <<ChLParen>>
       \o Join(OpString(node.op),
               OperandSort(collect_operands(node, node.op, labels)))
       \o <<ChRParen>>

\* Structure of a tree
RECURSIVE LeafIndices(_)
LeafIndices(node) ==
  IF node.op = "Leaf" THEN <<node.capacitor_index>>
  ELSE LeafIndices(node.left) \o LeafIndices(node.right)

RECURSIVE NodeCount(_)
NodeCount(node) ==
  IF node.op = "Leaf" THEN 1
  ELSE 1 + NodeCount(node.left) + NodeCount(node.right)

RECURSIVE LeavesOf(_)
LeavesOf(node) ==
  IF node.op = "Leaf" THEN <<node>>
  ELSE LeavesOf(node.left) \o LeavesOf(node.right)

(***************************************************************************)
(* Metrics (metrics.py)                                                    *)
(***************************************************************************)
calculate_absolute_error(ceq, target) == RAbs(RSub(ceq, target))

\* the error as a fraction of the target, not as a percentage
RelativeErrorAsFraction(ceq, target) == RDiv(RAbs(RSub(ceq, target)), target)

\* defined for target # 0 (the code raises ValueError for target = 0)
calculate_relative_error(ceq, target) ==
  RMul(RDiv(RAbs(RSub(ceq, target)), target), Q(100))

check_within_tolerance(relative_error, tolerance) ==
  RLeq(relative_error, tolerance)

\* create_solution for target > 0; callers below guard target <= 0, where the
\* code raises ValueError
create_solution(topology, ceq, target, tolerance, expression) ==
  [topology |-> topology,
   ceq |-> ceq,
   target |-> target,
   absolute_error |-> calculate_absolute_error(ceq, target),
   relative_error |-> calculate_relative_error(ceq, target),
   within_tolerance |->
     check_within_tolerance(calculate_relative_error(ceq, target), tolerance),
   expression |-> expression]

\* an insertion that puts a candidate before the candidates of equal error
RECURSIVE InsertBeforeEqual(_, _)
InsertBeforeEqual(sorted, x) ==
  IF sorted = <<>> THEN <<x>>
  ELSE IF RLeq(x.absolute_error, Head(sorted).absolute_error)
       THEN <<x>> \o sorted
       ELSE <<Head(sorted)>> \o InsertBeforeEqual(Tail(sorted), x)

\* sorted(solutions, key=absolute_error): stable, ascending
RECURSIVE InsertByError(_, _)
InsertByError(sorted, x) ==
  IF sorted = <<>> THEN <<x>>
  ELSE IF RLess(x.absolute_error, Head(sorted).absolute_error)
       THEN <<x>> \o sorted
       ELSE <<Head(sorted)>> \o InsertByError(Tail(sorted), x)

RECURSIVE rank_solutions(_)
rank_solutions(l) ==
  IF l = <<>> THEN <<>>
  ELSE InsertByError(rank_solutions(SubSeq(l, 1, Len(l) - 1)), l[Len(l)])

ProgressUpdate(current, total) == [current |-> current, total |-> total]

(***************************************************************************)
(* State                                                                   *)
(***************************************************************************)
VARIABLES
  pc,               \* position of the running call
  fn,               \* the function that was called
  args,             \* its arguments
  result,           \* the value it returned
  updates,          \* ProgressUpdates delivered to progress_cb, in order
  cache,            \* enumerate_sp_topologies: memoization cache
  stack,            \* enumerate_sp_topologies: frames of _enumerate_recursive
  ret,              \* enumerate_sp_topologies: value of the last return
  current_count,    \* enumerate_sp_topologies: current_count[0]
  topologies,       \* find_best_sp_solutions: the enumerated trees
  solutions,        \* candidate pool of the running engine
  seen_normalized,  \* find_best_sp_solutions: canonical forms seen
  pos,              \* index of the next loop iteration
  rng,              \* heuristic_search: state of the seeded generator
  hash_order,       \* order in which this interpreter iterates a set of
                    \* node names (fixed per process by the str hash seed)
  generated,        \* heuristic_search: graphs generated so far, in order
  best_error,       \* heuristic_search: running best absolute error
  previous,         \* outcome of the preceding call with the same arguments
  seen_values,      \* solve: equivalent capacitances already kept
  current_step,     \* solve: number of templates processed
  perm_index        \* solve: position in permutations(capacitors)

callVars == <<pc, fn, args, result, updates>>
enumVars == <<cache, stack, ret, current_count>>
poolVars == <<topologies, solutions, seen_normalized, pos>>
heurVars == <<rng, hash_order, generated, best_error, previous>>
solveVars == <<seen_values, current_step, perm_index>>
vars == <<callVars, enumVars, poolVars, heurVars, solveVars>>

\* float('inf') as the initial best error
Infinity == [finite |-> FALSE, value |-> Q(0)]
Finite(q) == [finite |-> TRUE, value |-> q]

Idle == pc = "idle"
Returned == pc \in {"done", "raised"}

(***************************************************************************)
(* enumerate_sp_topologies (sp_enumeration.py)                             *)
(***************************************************************************)
PROGRESS_UPDATE_FREQUENCY == 50

RECURSIVE ExtrapolateTotal(_, _)
ExtrapolateTotal(estimate, steps) ==
  IF steps = 0 THEN estimate
  ELSE ExtrapolateTotal((estimate * 13) \div 2, steps - 1)

estimate_total_topologies(n) ==
  IF n <= 1 THEN 1
  ELSE IF n = 2 THEN 2
  ELSE IF n = 3 THEN 8
  ELSE IF n = 4 THEN 40
  ELSE IF n = 5 THEN 224
  ELSE IF n = 6 THEN 1344
  ELSE IF n = 7 THEN 8448
  ELSE IF n = 8 THEN 54912
  ELSE Min(ExtrapolateTotal(54912, n - 8), 100000000)

\* a head that tests the list for emptiness only
EnumerateRaisesEmptyOnly(capacitors) == capacitors = <<>>

\* The two checks at the head of enumerate_sp_topologies
EnumerateRaises(capacitors) ==
  \/ capacitors = <<>>
  \/ \E i \in 1..Len(capacitors) : RLeq(capacitors[i], Q(0))

Frame(subset) ==
  [subset |-> subset, phase |-> "enter", i |-> 1,
   topologies |-> <<>>, left |-> <<>>, right |-> <<>>]

\* return `value` from the top frame to its caller
Return(stk, value) ==
  LET rest == SubSeq(stk, 1, Len(stk) - 1)
  IN  IF rest = <<>> THEN rest
      ELSE LET caller == rest[Len(rest)]
           IN  [rest EXCEPT ![Len(rest)] =
                  IF caller.phase = "waitL"
                  THEN [caller EXCEPT !.phase = "gotL", !.left = value]
                  ELSE [caller EXCEPT !.phase = "gotR", !.right = value]]

Top == stack[Len(stack)]
Enumerating == pc = "enumerating" /\ stack # <<>>

\* if subset in cache: return cache[subset]
EnumCacheHit ==
  /\ Enumerating /\ Top.phase = "enter"
  /\ Top.subset \in DOMAIN cache
  /\ ret' = cache[Top.subset]
  /\ stack' = Return(stack, cache[Top.subset])
  /\ UNCHANGED <<callVars, cache, current_count, poolVars, heurVars, solveVars>>

\* base case: a single capacitor
EnumLeaf ==
  /\ Enumerating /\ Top.phase = "enter"
  /\ Top.subset \notin DOMAIN cache
  /\ Cardinality(Top.subset) = 1
  /\ LET idx == SubsetList(Top.subset)[1]
         res == <<Leaf(idx, args.capacitors[idx + 1])>>
     IN  /\ cache' = (Top.subset :> res) @@ cache
         /\ ret' = res
         /\ stack' = Return(stack, res)
  /\ UNCHANGED <<callVars, current_count, poolVars, heurVars, solveVars>>

\* recursive case: topologies = [], subset_list = list(subset), first split
EnumSplit ==
  /\ Enumerating /\ Top.phase = "enter"
  /\ Top.subset \notin DOMAIN cache
  /\ Cardinality(Top.subset) > 1
  /\ stack' = [stack EXCEPT ![Len(stack)].phase = "split"]
  /\ UNCHANGED <<callVars, cache, ret, current_count, poolVars, heurVars, solveVars>>

\* left_topologies = _enumerate_recursive(frozenset(subset_list[:i]))
EnumCallLeft ==
  /\ Enumerating /\ Top.phase = "split"
  /\ Top.i < Cardinality(Top.subset)
  /\ LET subset_list == SubsetList(Top.subset)
         left_indices == SeqToSet(SubSeq(subset_list, 1, Top.i))
     IN  stack' = Append([stack EXCEPT ![Len(stack)].phase = "waitL"],
                         Frame(left_indices))
  /\ UNCHANGED <<callVars, cache, ret, current_count, poolVars, heurVars, solveVars>>

\* a right slice that starts one position early: subset_list[i-1:]
EnumCallRightOverlap ==
  /\ Enumerating /\ Top.phase = "gotL"
  /\ LET subset_list == SubsetList(Top.subset)
         right_indices ==
           SeqToSet(SubSeq(subset_list, Top.i, Len(subset_list)))
     IN  stack' = Append([stack EXCEPT ![Len(stack)].phase = "waitR"],
                         Frame(IF Top.i = 1
                               THEN SeqToSet(Tail(subset_list))
                               ELSE right_indices))
  /\ UNCHANGED <<callVars, cache, ret, current_count, poolVars, heurVars, solveVars>>

\* right_topologies = _enumerate_recursive(frozenset(subset_list[i:]))
EnumCallRight ==
  /\ Enumerating /\ Top.phase = "gotL"
  /\ LET subset_list == SubsetList(Top.subset)
         right_indices ==
           SeqToSet(SubSeq(subset_list, Top.i + 1, Len(subset_list)))
     IN  stack' = Append([stack EXCEPT ![Len(stack)].phase = "waitR"],
                         Frame(right_indices))
  /\ UNCHANGED <<callVars, cache, ret, current_count, poolVars, heurVars, solveVars>>

\* a combine loop that forgets the Parallel combination
RECURSIVE CombineLoopSeriesOnly(_, _, _, _, _)
CombineLoopSeriesOnly(left, right, li, ri, acc) ==
  IF li > Len(left) THEN acc
  ELSE IF ri > Len(right)
       THEN CombineLoopSeriesOnly(left, right, li + 1, 1, acc)
  ELSE CombineLoopSeriesOnly(left, right, li, ri + 1,
         [acc EXCEPT !.topologies = @ \o <<Series(left[li], right[ri])>>,
                     !.count = @ + 2])

\* the two inner loops of one split: append Series and Parallel, count both,
\* notify progress_cb at every multiple of PROGRESS_UPDATE_FREQUENCY
RECURSIVE CombineLoop(_, _, _, _, _)
CombineLoop(left, right, li, ri, acc) ==
  IF li > Len(left) THEN acc
  ELSE IF ri > Len(right) THEN CombineLoop(left, right, li + 1, 1, acc)
  ELSE LET count == acc.count + 2
           notify == /\ acc.cb
                     /\ count % PROGRESS_UPDATE_FREQUENCY = 0
       IN  CombineLoop(left, right, li, ri + 1,
             [acc EXCEPT
                !.topologies = @ \o <<Series(left[li], right[ri]),
                                      Parallel(left[li], right[ri])>>,
                !.count = count,
                !.updates = IF notify
                            THEN Append(@, ProgressUpdate(count, acc.total))
                            ELSE @])

EnumCombine ==
  /\ Enumerating /\ Top.phase = "gotR"
  /\ LET out == CombineLoop(Top.left, Top.right, 1, 1,
                  [topologies |-> Top.topologies,
                   count |-> current_count,
                   updates |-> updates,
                   cb |-> args.progress_cb,
                   total |-> estimate_total_topologies(Len(args.capacitors))])
     IN  /\ stack' = [stack EXCEPT ![Len(stack)] =
                        [Top EXCEPT !.phase = "split", !.i = @ + 1,
                                    !.topologies = out.topologies]]
         /\ current_count' = out.count
         /\ updates' = out.updates
  /\ UNCHANGED <<pc, fn, args, result, cache, ret, poolVars, heurVars, solveVars>>

\* cache[subset] = topologies; return topologies
EnumStore ==
  /\ Enumerating /\ Top.phase = "split"
  /\ Top.i >= Cardinality(Top.subset)
  /\ cache' = (Top.subset :> Top.topologies) @@ cache
  /\ ret' = Top.topologies
  /\ stack' = Return(stack, Top.topologies)
  /\ UNCHANGED <<callVars, current_count, poolVars, heurVars, solveVars>>

\* back in enumerate_sp_topologies: final progress callback and return
EnumFinish ==
  /\ pc = "enumerating" /\ stack = <<>>
  /\ updates' = IF args.progress_cb
                THEN Append(updates, ProgressUpdate(Len(ret), Len(ret)))
                ELSE updates
  /\ IF fn = "enumerate_sp_topologies"
     THEN /\ result' = ret
          /\ pc' = "done"
          /\ UNCHANGED topologies
     ELSE /\ topologies' = ret
          /\ pc' = "scoring"
          /\ UNCHANGED result
  /\ UNCHANGED <<fn, args, enumVars, solutions, seen_normalized, pos, heurVars, solveVars>>

(***************************************************************************)
(* find_best_sp_solutions (sp_enumeration.py)                              *)
(***************************************************************************)
\* an iteration that never records the canonical form it has seen
FindBestStepForgetsSeen ==
  /\ pc = "scoring" /\ pos <= Len(topologies)
  /\ LET topology == topologies[pos]
         labels == capacitor_labels(Len(args.capacitors))
         ceq == calculate_sp_ceq(topology)
         expression == sp_node_to_expression(topology, labels)
     IN  solutions' = Append(solutions,
                        create_solution(topology, ceq.value, args.target,
                                        args.tolerance, expression))
  /\ pos' = pos + 1
  /\ UNCHANGED <<callVars, enumVars, topologies, seen_normalized, heurVars, solveVars>>

\* one iteration of `for topology in topologies`
FindBestStep ==
  /\ pc = "scoring" /\ pos <= Len(topologies)
  /\ LET topology == topologies[pos]
         labels == capacitor_labels(Len(args.capacitors))
         ceq == calculate_sp_ceq(topology)
         normalized == sp_node_to_normalized_expression(topology, labels)
         expression == sp_node_to_expression(topology, labels)
         solution == create_solution(topology, ceq.value, args.target,
                                     args.tolerance, expression)
     IN  IF ceq.raised
         THEN UNCHANGED <<solutions, seen_normalized>>
         ELSE IF args.deduplicate /\ normalized \in seen_normalized
         THEN UNCHANGED <<solutions, seen_normalized>>
         ELSE /\ seen_normalized' = IF args.deduplicate
                                    THEN seen_normalized \cup {normalized}
                                    ELSE seen_normalized
              /\ solutions' = Append(solutions, solution)
  /\ pos' = pos + 1
  /\ UNCHANGED <<callVars, enumVars, topologies, heurVars, solveVars>>

\* ranked = rank_solutions(solutions); return ranked[:top_k]
FindBestReturn ==
  /\ pc = "scoring" /\ pos > Len(topologies)
  /\ result' = Take(rank_solutions(solutions), args.top_k)
  /\ pc' = "done"
  /\ UNCHANGED <<fn, args, updates, enumVars, poolVars, heurVars, solveVars>>

(***************************************************************************)
(* Calls of the SP-tree engine                                             *)
(***************************************************************************)
CapValues == 0..2
Targets == 0..2
Tolerances == {-1, 0, 5}
ClassroomCaps == <<3, 2, 3, 1>>
ClassroomTarget == 1

RECURSIVE SeqsUpTo(_, _)
SeqsUpTo(S, n) ==
  IF n = 0 THEN {<<>>}
  ELSE LET shorter == SeqsUpTo(S, n - 1)
       IN  shorter \cup {Append(s, x) : s \in shorter, x \in S}

CapLists == SeqsUpTo(CapValues, MaxCaps) \cup {ClassroomCaps}

ToQ(caps) == [i \in 1..Len(caps) |-> Q(caps[i])]

\* a call whose cache is a module-level dictionary: it starts from the cache
\* the call before it left
StartCallAfterKeepingCache(f, a, raises, prev) ==
  /\ fn' = f
  /\ args' = a
  /\ result' = <<>>
  /\ updates' = <<>>
  /\ cache' = cache
  /\ ret' = <<>>
  /\ current_count' = 0
  /\ topologies' = <<>>
  /\ solutions' = <<>>
  /\ seen_normalized' = {}
  /\ pos' = 1
  /\ previous' = prev
  /\ UNCHANGED <<rng, hash_order, generated, best_error, solveVars>>
  /\ IF raises
     THEN pc' = "raised" /\ stack' = <<>>
     ELSE /\ pc' = "enumerating"
          /\ stack' = <<Frame(0..(Len(a.capacitors) - 1))>>

\* the state a call starts from: every local of the previous call is gone
\* prev: the outcome of the preceding call that this call repeats, if any
StartCallAfter(f, a, raises, prev) ==
  /\ fn' = f
  /\ args' = a
  /\ result' = <<>>
  /\ updates' = <<>>
  /\ cache' = <<>>
  /\ ret' = <<>>
  /\ current_count' = 0
  /\ topologies' = <<>>
  /\ solutions' = <<>>
  /\ seen_normalized' = {}
  /\ pos' = 1
  /\ previous' = prev
  /\ UNCHANGED <<rng, hash_order, generated, best_error, solveVars>>
  /\ IF raises
     THEN pc' = "raised" /\ stack' = <<>>
     ELSE /\ pc' = "enumerating"
          /\ stack' = <<Frame(0..(Len(a.capacitors) - 1))>>

StartCall(f, a, raises) == StartCallAfter(f, a, raises, previous)

CallEnumerate ==
  /\ Idle
  /\ \E caps \in CapLists, cb \in BOOLEAN :
       StartCall("enumerate_sp_topologies",
                 [capacitors |-> ToQ(caps), progress_cb |-> cb],
                 EnumerateRaises(ToQ(caps)))

\* a head that tests the target only
FindBestRaisesTargetOnly(target, tolerance) == RLeq(target, Q(0))

\* The two checks at the head of find_best_sp_solutions
FindBestRaises(target, tolerance) ==
  \/ RLeq(target, Q(0))
  \/ RLess(tolerance, Q(0))

CallFindBest ==
  /\ Idle
  /\ \E caps \in CapLists, target \in Targets, tolerance \in Tolerances,
        top_k \in 1..MaxTopK, cb \in BOOLEAN, deduplicate \in BOOLEAN :
       StartCall("find_best_sp_solutions",
                 [capacitors |-> ToQ(caps), target |-> Q(target),
                  tolerance |-> Q(tolerance), top_k |-> top_k,
                  progress_cb |-> cb, deduplicate |-> deduplicate],
                 \/ FindBestRaises(Q(target), Q(tolerance))
                 \/ EnumerateRaises(ToQ(caps)))

(***************************************************************************)
(* Specification of the SP-tree engine                                     *)
(***************************************************************************)
\* the caller is done with the outcome of a call; the next call starts afresh
CallerContinues ==
  /\ Returned
  /\ pc' = "idle"
  /\ fn' = "none"
  /\ args' = <<>>
  /\ result' = <<>>
  /\ updates' = <<>>
  /\ cache' = <<>>
  /\ stack' = <<>>
  /\ ret' = <<>>
  /\ current_count' = 0
  /\ topologies' = <<>>
  /\ solutions' = <<>>
  /\ seen_normalized' = {}
  /\ pos' = 1
  /\ rng' = 0
  /\ hash_order' = <<>>
  /\ generated' = <<>>
  /\ best_error' = Infinity
  /\ previous' = <<>>
  /\ seen_values' = {}
  /\ current_step' = 0
  /\ perm_index' = 1

Init ==
  /\ pc = "idle"
  /\ fn = "none"
  /\ args = <<>>
  /\ result = <<>>
  /\ updates = <<>>
  /\ cache = <<>>
  /\ stack = <<>>
  /\ ret = <<>>
  /\ current_count = 0
  /\ topologies = <<>>
  /\ solutions = <<>>
  /\ seen_normalized = {}
  /\ pos = 1
  /\ rng = 0
  /\ hash_order = <<>>
  /\ generated = <<>>
  /\ best_error = Infinity
  /\ previous = <<>>
  /\ seen_values = {}
  /\ current_step = 0
  /\ perm_index = 1

\* enumerate_sp_topologies called again as soon as a call of it has returned:
\* what the returned call left in memory is still there when the next one
\* begins; the argument and the result of the returned call are kept for
\* comparison
MaxNextCaps == 2
NextCapLists == SeqsUpTo(1..2, MaxNextCaps)
CallEnumerateNext ==
  /\ pc = "done" /\ fn = "enumerate_sp_topologies"
  /\ \E caps \in NextCapLists :
       StartCallAfter("enumerate_sp_topologies",
                      [capacitors |-> ToQ(caps), progress_cb |-> FALSE],
                      EnumerateRaises(ToQ(caps)),
                      <<[capacitors |-> args.capacitors,
                         result |-> result]>>)

NextCalls ==
  \/ CallEnumerate
  \/ CallEnumerateNext
  \/ EnumCacheHit
  \/ EnumLeaf
  \/ EnumSplit
  \/ EnumCallLeft
  \/ EnumCallRight
  \/ EnumCombine
  \/ EnumStore
  \/ EnumFinish
  \/ CallerContinues

SpecCalls == Init /\ [][NextCalls]_vars

NextTree ==
  \/ CallEnumerate
  \/ CallFindBest
  \/ EnumCacheHit
  \/ EnumLeaf
  \/ EnumSplit
  \/ EnumCallLeft
  \/ EnumCallRight
  \/ EnumCombine
  \/ EnumStore
  \/ EnumFinish
  \/ FindBestStep
  \/ FindBestReturn
  \/ CallerContinues

SpecTree == Init /\ [][NextTree]_vars

(***************************************************************************)
(* Graphs and the Laplacian solver (graphs.py)                             *)
(*                                                                         *)
(* A graph is [nodes |-> list of node names in insertion order,            *)
(* edges |-> list of [u, v, data]], data being the attribute dictionary    *)
(* of the edge.  Graphs of nx.Graph have no parallel edges; self-loops     *)
(* are not generated.                                                      *)
(***************************************************************************)
Edge(u, v, data) == [u |-> u, v |-> v, data |-> data]
HasNode(graph, n) == \E i \in 1..Len(graph.nodes) : graph.nodes[i] = n
Neighbors(graph, n) ==
  {graph.edges[i].v : i \in {j \in 1..Len(graph.edges) : graph.edges[j].u = n}}
  \cup
  {graph.edges[i].u : i \in {j \in 1..Len(graph.edges) : graph.edges[j].v = n}}

\* nodes reachable from the nodes of `seen`
RECURSIVE Reach(_, _)
Reach(graph, seen) ==
  The({IF more = seen THEN seen ELSE Reach(graph, more) :
         more \in {seen \cup UNION {Neighbors(graph, n) : n \in seen}}})

\* nx.has_path
has_path(graph, a, b) == b \in Reach(graph, {a})

is_connected_between_terminals(graph, terminal_a, terminal_b) ==
  IF ~HasNode(graph, terminal_a) \/ ~HasNode(graph, terminal_b)
  THEN FALSE
  ELSE has_path(graph, terminal_a, terminal_b)

HasCapacitance(e) == "capacitance" \in DOMAIN e.data
MissingCapacitance(graph) ==
  \E i \in 1..Len(graph.edges) : ~HasCapacitance(graph.edges[i])

RECURSIVE SumCapacitance(_)
SumCapacitance(edges) ==
  IF edges = <<>> THEN Q(0)
  ELSE RAdd(Head(edges).data.capacitance, SumCapacitance(Tail(edges)))

\* graph[a][b]['capacitance']
EdgeCapacitance(graph, a, b) ==
  LET i == CHOOSE j \in 1..Len(graph.edges) :
             \/ graph.edges[j].u = a /\ graph.edges[j].v = b
             \/ graph.edges[j].u = b /\ graph.edges[j].v = a
  IN  graph.edges[i].data.capacitance

\* a matrix whose off-diagonal entries keep the sign of the weights
BuildLaplacianUnsigned(graph) ==
  [i \in SeqToSet(graph.nodes) |-> [j \in SeqToSet(graph.nodes) |->
     SumCapacitance(SelectSeq(graph.edges,
       LAMBDA e : IF i = j THEN (e.u = i \/ e.v = i)
                  ELSE (e.u = i /\ e.v = j) \/ (e.u = j /\ e.v = i)))]]

\* the matrix of build_laplacian_matrix, indexed by node names; the code
\* raises ValueError instead when MissingCapacitance(graph)
build_laplacian_matrix(graph) ==
  LET names == SeqToSet(graph.nodes)
      Between(a, b, e) == (e.u = a /\ e.v = b) \/ (e.u = b /\ e.v = a)
      Incident(a, e) == (e.u = a \/ e.v = a) /\ e.u # e.v
  IN  [i \in names |-> [j \in names |->
        IF i = j
        THEN SumCapacitance(SelectSeq(graph.edges, LAMBDA e : Incident(i, e)))
        ELSE RNeg(SumCapacitance(
                    SelectSeq(graph.edges, LAMBDA e : Between(i, j, e))))]]

\* one step of the Gaussian elimination of M x = b: the matrix and the
\* right-hand side on the indices `rest`, after the pivot p is eliminated
EliminatedMatrix(M, p, rest) ==
  [r \in rest |-> [c \in rest |->
     RSub(M[r][c], RMul(RDiv(M[r][p], M[p][p]), M[p][c]))]]
EliminatedVector(M, b, p, rest) ==
  [r \in rest |-> RSub(b[r], RMul(RDiv(M[r][p], M[p][p]), b[p]))]

\* Singular tells whether a pivot of the elimination over the index list
\* idx vanishes (M is positive semidefinite, so no row exchange is needed)
RECURSIVE Singular(_, _)
Singular(M, idx) ==
  IF idx = <<>> THEN FALSE
  ELSE IF M[idx[1]][idx[1]] = Q(0) THEN TRUE
  ELSE The({Then(M2, Singular(M2, Tail(idx))) :
              M2 \in {EliminatedMatrix(M, idx[1], SeqToSet(Tail(idx)))}})

\* sum of f[x] over x in S
RECURSIVE SumOver(_, _)
SumOver(S, f) ==
  IF S = {} THEN Q(0)
  ELSE The({RAdd(f[x], SumOver(S \ {x}, f)) : x \in {CHOOSE y \in S : TRUE}})

\* np.linalg.solve for a nonsingular M: elimination, then back substitution
RECURSIVE LinSolve(_, _, _)
LinSolve(M, b, idx) ==
  IF idx = <<>> THEN <<>>
  ELSE The({Then(M2, Then(b2,
         The({(p :> RDiv(RSub(b[p], SumOver(rest, [c \in rest |->
                                                    RMul(M[p][c], x[c])])),
                         M[p][p])) @@ x :
                x \in {LinSolve(M2, b2, Tail(idx))}}))) :
              p \in {idx[1]}, rest \in {SeqToSet(Tail(idx))},
              M2 \in {EliminatedMatrix(M, idx[1], SeqToSet(Tail(idx)))},
              b2 \in {EliminatedVector(M, b, idx[1], SeqToSet(Tail(idx)))}})

\* the 1e-15 added to the diagonal of a near-singular reduced Laplacian
Regularization == <<1, 1000>>
RegularizedWarning == "Warning: Near-singular matrix, using regularization"

Raise == [raised |-> TRUE, ceq |-> Q(0), warning |-> "None"]
Returns(ceq, warning) == [raised |-> FALSE, ceq |-> ceq, warning |-> warning]

\* a warning that spells out the names of the terminals it was given
NoPathNamed(terminal_a, terminal_b) ==
  "No path between " \o terminal_a \o " and " \o terminal_b

\* the warning of the connectivity check: a literal, whatever the terminals
NoPathWarning(terminal_a, terminal_b) == "No path between A and B"

\* the rows and columns of the internal nodes
ReducedLaplacian(L, inodes) == [r \in inodes |-> [c \in inodes |-> L[r][c]]]

\* L_reduced += np.eye(n) * 1e-15
Regularized(reduced, inodes) ==
  [r \in inodes |-> [c \in inodes |->
     IF r = c THEN RAdd(reduced[r][c], Regularization) ELSE reduced[r][c]]]

\* a current that leaves the capacitances out
TerminalCurrentUnweighted(graph, terminal_a, V) ==
  SumOver(Neighbors(graph, terminal_a),
          [nb \in Neighbors(graph, terminal_a) |->
             RSub(V[terminal_a], V[nb])])

\* I_a: the current out of terminal_a under the node voltages V
TerminalCurrent(graph, terminal_a, V) ==
  SumOver(Neighbors(graph, terminal_a),
          [nb \in Neighbors(graph, terminal_a) |->
             RMul(EdgeCapacitance(graph, terminal_a, nb),
                  RSub(V[terminal_a], V[nb]))])

\* calculate_graph_ceq.  np.linalg.cond exceeds 1e12 exactly when the
\* reduced Laplacian is singular: for the small weight ratios drawn here a
\* nonsingular reduced Laplacian is well conditioned.  With positive weights
\* the regularized matrix is positive definite, so np.linalg.solve does not
\* raise and the solved voltages are finite.  The steps of the nodal
\* analysis read from the last line upwards: L, internal, L_reduced (here
\* `reduced`) and rhs, the condition number, the regularization, V, I_a.
calculate_graph_ceq(graph, terminal_a, terminal_b) ==
  IF ~HasNode(graph, terminal_a) THEN Raise
  ELSE IF ~HasNode(graph, terminal_b) THEN Raise
  ELSE IF ~is_connected_between_terminals(graph, terminal_a, terminal_b)
  THEN Returns(Q(0), NoPathWarning(terminal_a, terminal_b))
  ELSE IF Len(graph.nodes) = 2
  THEN IF MissingCapacitance(graph) THEN Raise
       ELSE Returns(SumCapacitance(graph.edges), "None")
  ELSE IF MissingCapacitance(graph) THEN Raise
  ELSE
    The({Then(L,
      IF internal = <<>>
      THEN Returns(SumCapacitance(graph.edges), "None")
      ELSE
        The({Then(reduced, Then(rhs,
        The({
        The({Then(L_reduced,
        The({Then(V,
        The({Returns(RMax(Q(0), I_a),
                     IF near_singular THEN RegularizedWarning ELSE "None") :
               I_a \in {TerminalCurrent(graph, terminal_a, V)}})) :
               V \in {(terminal_a :> Q(1)) @@ (terminal_b :> Q(0))
                      @@ LinSolve(L_reduced, rhs, internal)}})) :
               L_reduced \in {IF near_singular
                              THEN Regularized(reduced, SeqToSet(internal))
                              ELSE reduced}}) :
               near_singular \in {Singular(reduced, internal)}}))) :
               reduced \in {ReducedLaplacian(L, SeqToSet(internal))},
               rhs \in {[r \in SeqToSet(internal) |->
                           RNeg(L[r][terminal_a])]}})) :
          L \in {build_laplacian_matrix(graph)},
          internal \in {SelectSeq(graph.nodes,
                          LAMBDA n : n # terminal_a /\ n # terminal_b)}})

(***************************************************************************)
(* Calls of calculate_graph_ceq                                            *)
(***************************************************************************)
MaxEdges == 3
NodePool == <<"A", "B", "n1", "n2">>
EdgeChoices == {"absent", "c1", "c2", "c3", "unweighted"}

EdgeData(choice) ==
  IF choice = "c1" THEN [capacitance |-> Q(1)]
  ELSE IF choice = "c2" THEN [capacitance |-> Q(2)]
  ELSE IF choice = "c3" THEN [capacitance |-> Q(3)]
  ELSE [label |-> Q(0)]

\* the node pairs (i < j) of a node list, in lexicographic order
RECURSIVE PairsFrom(_, _, _)
PairsFrom(n, i, j) ==
  IF i >= n THEN <<>>
  ELSE IF j > n THEN PairsFrom(n, i + 1, i + 2)
  ELSE <<<<i, j>>>> \o PairsFrom(n, i, j + 1)

AllPairs(n) == PairsFrom(n, 1, 2)

RECURSIVE EdgesOf(_, _, _)
EdgesOf(nodes, pairs, choice) ==
  IF pairs = <<>> THEN <<>>
  ELSE (IF choice[Head(pairs)] = "absent" THEN <<>>
        ELSE <<Edge(nodes[Head(pairs)[1]], nodes[Head(pairs)[2]],
                    EdgeData(choice[Head(pairs)]))>>)
       \o EdgesOf(nodes, Tail(pairs), choice)

SubLists(pool) ==
  {SelectSeq(pool, LAMBDA n : n \in S) : S \in SUBSET SeqToSet(pool)}

GraphsOn(nodes) ==
  LET pairs == AllPairs(Len(nodes))
  IN  {[nodes |-> nodes, edges |-> EdgesOf(nodes, pairs, choice)] :
         choice \in {c \in [SeqToSet(pairs) -> EdgeChoices] :
                       Cardinality({q \in SeqToSet(pairs) : c[q] # "absent"})
                         <= MaxEdges}}

InputGraphs == UNION {GraphsOn(nodes) : nodes \in SubLists(NodePool)}

CallGraphCeq ==
  /\ Idle
  /\ \E graph \in InputGraphs, terminal_a, terminal_b \in SeqToSet(NodePool) :
       /\ terminal_a # terminal_b
       /\ \E out \in {calculate_graph_ceq(graph, terminal_a, terminal_b)} :
              /\ fn' = "calculate_graph_ceq"
              /\ args' = [graph |-> graph, terminal_a |-> terminal_a,
                          terminal_b |-> terminal_b]
              /\ pc' = IF out.raised THEN "raised" ELSE "done"
              /\ result' = IF out.raised THEN <<>>
                           ELSE <<out.ceq, out.warning>>
  /\ UNCHANGED <<updates, enumVars, poolVars, heurVars, solveVars>>

\* build_laplacian_matrix called on its own: (L, nodes), or ValueError
CallBuildLaplacian ==
  /\ Idle
  /\ \E graph \in InputGraphs :
       /\ fn' = "build_laplacian_matrix"
       /\ args' = [graph |-> graph]
       /\ pc' = IF MissingCapacitance(graph) THEN "raised" ELSE "done"
       /\ result' = IF MissingCapacitance(graph) THEN <<>>
                    ELSE <<build_laplacian_matrix(graph), graph.nodes>>
  /\ UNCHANGED <<updates, enumVars, poolVars, heurVars, solveVars>>

NextGraph ==
  \/ CallGraphCeq
  \/ CallBuildLaplacian
  \/ CallerContinues

SpecGraph == Init /\ [][NextGraph]_vars

(***************************************************************************)
(* Random graph search (heuristics.py)                                     *)
(*                                                                         *)
(* np.random.default_rng(seed) is a deterministic generator: its state is  *)
(* a function of the seed and of the draws made so far.  It is modelled    *)
(* as a linear congruential generator; a draw advances the state and       *)
(* reduces it to the requested range.                                      *)
(***************************************************************************)
RngModulus == 251
RngMultiplier == 33
RngIncrement == 17

default_rng(seed) == seed % RngModulus

\* one draw of an index in 0..(n - 1)
Draw(state, n) ==
  The({[value |-> next % n, rng |-> next] :
         next \in {(state * RngMultiplier + RngIncrement) % RngModulus}})

\* rng.integers(low, high): low <= value < high
integers(state, low, high) ==
  The({[value |-> low + d.value, rng |-> d.rng] :
         d \in {Draw(state, high - low)}})

Remove(s, i) == SubSeq(s, 1, i - 1) \o SubSeq(s, i + 1, Len(s))

\* rng.choice(n, size, replace=False): `size` distinct indices, in draw order
RECURSIVE ChoiceWithoutReplacement(_, _, _)
ChoiceWithoutReplacement(state, remaining, size) ==
  IF size = 0 THEN [value |-> <<>>, rng |-> state]
  ELSE
    The({
    The({[value |-> <<left[d.value + 1]>> \o rest.value, rng |-> rest.rng] :
           rest \in {ChoiceWithoutReplacement(
                       d.rng, Remove(left, d.value + 1), size - 1)}}) :
           left \in {remaining}, d \in {Draw(state, Len(remaining))}})

\* rng.choice(items): one element of a list
choice(state, items) ==
  The({[value |-> list[d.value + 1], rng |-> d.rng] :
         list \in {items}, d \in {Draw(state, Len(items))}})

InternalNames == <<"n1", "n2", "n3">>

\* for idx in selected_indices: G.add_edge(u, v, capacitance=rng.choice(...))
RECURSIVE AddSelectedEdges(_, _, _, _, _)
AddSelectedEdges(state, nodes, selected, capacitors, edges) ==
  IF selected = <<>> THEN [edges |-> edges, rng |-> state]
  ELSE The({AddSelectedEdges(
              cap.rng, nodes, Tail(selected), capacitors,
              Append(edges, Edge(nodes[pair[1]], nodes[pair[2]],
                                 [capacitance |-> cap.value]))) :
              pair \in {Head(selected)}, cap \in {choice(state, capacitors)}})

\* requires capacitors # <<>> and max_internal_nodes >= 0 (the code raises
\* ValueError otherwise).  The draws read from the last line upwards:
\* n_internal, n_edges, selected_indices, the capacitance of every edge.
generate_random_graph(capacitors, max_internal_nodes, state) ==
  The({
  The({
  The({
  The({
  The({[graph |-> [nodes |-> nodes, edges |-> added.edges],
        rng |-> added.rng] :
         added \in {AddSelectedEdges(selected.rng, nodes, selected.value,
                                     capacitors, <<>>)}}) :
         selected \in {ChoiceWithoutReplacement(
                         n_edges.rng, possible_edges,
                         Min(n_edges.value, Len(possible_edges)))}}) :
         n_edges \in {integers(n_internal.rng, total_nodes - 1,
                               (total_nodes * (total_nodes - 1)) \div 2 + 1)},
         possible_edges \in {AllPairs(total_nodes)}}) :
         total_nodes \in {2 + n_internal.value},
         nodes \in {<<"A", "B">> \o SubSeq(InternalNames, 1,
                                          n_internal.value)}}) :
         n_internal \in {integers(state, 0, max_internal_nodes + 1)}})

\* list(nx.connected_components(graph)): components in the order of their
\* first node
RECURSIVE connected_components(_, _, _)
connected_components(graph, i, seen) ==
  IF i > Len(graph.nodes) THEN <<>>
  ELSE IF graph.nodes[i] \in seen
  THEN connected_components(graph, i + 1, seen)
  ELSE The({<<comp>> \o connected_components(graph, i + 1, seen \cup comp) :
              comp \in {Reach(graph, {graph.nodes[i]})}})

\* list(a_set): the elements in the iteration order of this interpreter
ListOfSet(S, order) == SelectSeq(order, LAMBDA n : n \in S)

\* the indices of the components that hold the node t
ComponentsOf(components, t) ==
  {i \in 1..Len(components) : t \in components[i]}

\* the bridging edge of _ensure_connected; the draws read from the last
\* line upwards: u, v, the capacitance
BridgeComponents(graph, capacitors, state, nodes_a, nodes_b) ==
  The({
  The({
  The({[graph |-> [nodes |-> graph.nodes,
                   edges |-> Append(graph.edges,
                               Edge(u.value, v.value,
                                    [capacitance |-> cap.value]))],
        rng |-> cap.rng, value |-> TRUE] :
         cap \in {choice(v.rng, capacitors)}}) :
         v \in {choice(u.rng, nodes_b)}}) :
         u \in {choice(state, nodes_a)}})

\* an _ensure_connected that adds no edge between the components of the
\* terminals
EnsureConnectedWithoutBridge(graph, capacitors, state, order, terminal_a, terminal_b) ==
  The({
    IF \/ ComponentsOf(components, terminal_a) = {}
       \/ ComponentsOf(components, terminal_b) = {}
    THEN [graph |-> graph, rng |-> state, value |-> FALSE]
    ELSE [graph |-> graph, rng |-> state, value |-> TRUE] :
    components \in {connected_components(graph, 1, {})}})

\* returns the graph after the in-place modification, the generator and
\* the value returned
ensure_connected(graph, capacitors, state, order, terminal_a, terminal_b) ==
  The({
    IF Len(components) = 1
    THEN [graph |-> graph, rng |-> state, value |-> TRUE]
    ELSE IF \/ ComponentsOf(components, terminal_a) = {}
            \/ ComponentsOf(components, terminal_b) = {}
    THEN [graph |-> graph, rng |-> state, value |-> FALSE]
    ELSE IF ComponentsOf(components, terminal_a)
              = ComponentsOf(components, terminal_b)
    THEN [graph |-> graph, rng |-> state, value |-> TRUE]
    ELSE BridgeComponents(
           graph, capacitors, state,
           ListOfSet(components[CHOOSE i \in ComponentsOf(components,
                                                          terminal_a) : TRUE],
                     order),
           ListOfSet(components[CHOOSE i \in ComponentsOf(components,
                                                          terminal_b) : TRUE],
                     order)) :
    components \in {connected_components(graph, 1, {})}})

NoGraph == [nodes |-> <<>>, edges |-> <<>>]

\* the loop `for _ in range(max_attempts)`; none tells that it returned None
RECURSIVE generate_connected_graph(_, _, _, _, _)
generate_connected_graph(capacitors, max_internal_nodes, state, order, max_attempts) ==
  IF max_attempts = 0
  THEN [none |-> TRUE, graph |-> NoGraph, rng |-> state]
  ELSE
    The({
    The({IF /\ ensured.value
            /\ is_connected_between_terminals(ensured.graph, "A", "B")
         THEN [none |-> FALSE, graph |-> ensured.graph, rng |-> ensured.rng]
         ELSE generate_connected_graph(capacitors, max_internal_nodes,
                                       ensured.rng, order, max_attempts - 1) :
           ensured \in {ensure_connected(G.graph, capacitors, G.rng, order,
                                         "A", "B")}}) :
           G \in {generate_random_graph(capacitors, max_internal_nodes,
                                        state)}})

GraphTopology(graph, terminal_a, terminal_b, internal_nodes) ==
  [graph |-> graph, terminal_a |-> terminal_a, terminal_b |-> terminal_b,
   internal_nodes |-> internal_nodes]

\* "Graph({n_nodes} nodes, {n_edges} edges, {n_internal} internal)": the
\* three numbers the text is formatted from
graph_topology_to_expression(topology) ==
  <<"Graph", Len(topology.graph.nodes), Len(topology.graph.edges),
    Len(topology.internal_nodes)>>

\* ProgressUpdate with its best_error field (None when no error is known)
ProgressUpdateBest(current, total, best) ==
  [current |-> current, total |-> total, best_error |-> best]

DefaultMaxInternalNodes == 2
MaxAttempts == 10
HeuristicProgressEvery == 50

MaxHeurCaps == 2
MaxIterations == 2

\* the seeds drawn: with the second one the first graph generated has a
\* terminal outside the component of the other nodes
Seeds == {0, 48}
HeurTolerances == {0, 5}

HeurCapLists == SeqsUpTo(CapValues, MaxHeurCaps)
Reverse(s) == [i \in 1..Len(s) |-> s[Len(s) + 1 - i]]
\* iteration orders of a set of node names that an interpreter may have
HashOrders == {NodePool, Reverse(NodePool)}

HeuristicRaises(a) ==
  \/ RLeq(a.target, Q(0))
  \/ a.iterations < 1
  \/ a.capacitors = <<>>

\* entry of heuristic_search: validation, default_rng(seed), empty pool
StartHeuristic(a, order, prev) ==
  /\ fn' = "heuristic_search"
  /\ args' = a
  /\ result' = <<>>
  /\ updates' = <<>>
  /\ solutions' = <<>>
  /\ pos' = 1
  /\ generated' = <<>>
  /\ best_error' = Infinity
  /\ hash_order' = order
  /\ previous' = prev
  /\ rng' = IF HeuristicRaises(a) THEN 0 ELSE default_rng(a.seed)
  /\ pc' = IF HeuristicRaises(a) THEN "raised" ELSE "searching"
  /\ UNCHANGED <<enumVars, topologies, seen_normalized, solveVars>>

CallHeuristic ==
  /\ Idle
  /\ \E caps \in HeurCapLists, target \in Targets,
        iterations \in 0..MaxIterations,
        max_internal_nodes \in (-1)..DefaultMaxInternalNodes,
        seed \in Seeds, tolerance \in HeurTolerances,
        top_k \in 1..MaxTopK, cb \in BOOLEAN, order \in HashOrders :
       StartHeuristic([capacitors |-> ToQ(caps), target |-> Q(target),
                       iterations |-> iterations,
                       max_internal_nodes |-> max_internal_nodes,
                       seed |-> seed, tolerance |-> Q(tolerance),
                       top_k |-> top_k, progress_cb |-> cb],
                      order, <<>>)

\* the same call once more, by this interpreter or by another run of the
\* program: the arguments are identical, the outcome of the first call is
\* kept for comparison
CallHeuristicAgain ==
  /\ pc = "done" /\ fn = "heuristic_search" /\ previous = <<>>
  /\ \E order \in HashOrders :
       StartHeuristic(args, order,
                      <<[generated |-> generated, result |-> result,
                         hash_order |-> hash_order]>>)

\* one iteration of `for i in range(iterations)`, i = pos - 1
HeurIterate ==
  /\ pc = "searching" /\ pos <= args.iterations
  /\ IF args.max_internal_nodes < 0
     THEN \* generate_random_graph raises ValueError
          /\ pc' = "raised"
          /\ UNCHANGED <<updates, solutions, pos, rng, generated, best_error>>
     ELSE \E G \in {generate_connected_graph(args.capacitors,
                                             args.max_internal_nodes, rng,
                                             hash_order, MaxAttempts)} :
          \E out \in {calculate_graph_ceq(G.graph, "A", "B")} :
          \E abs_err \in {calculate_absolute_error(out.ceq, args.target)},
             rel_err \in {calculate_relative_error(out.ceq, args.target)},
             topology \in {GraphTopology(G.graph, "A", "B",
                             SelectSeq(G.graph.nodes,
                                       LAMBDA n : n \notin {"A", "B"}))} :
          \E best \in {IF \/ ~best_error.finite
                          \/ RLess(abs_err, best_error.value)
                       THEN Finite(abs_err) ELSE best_error},
             solution \in {[topology |-> topology, ceq |-> out.ceq,
                            target |-> args.target,
                            absolute_error |-> abs_err,
                            relative_error |-> rel_err,
                            within_tolerance |->
                              check_within_tolerance(rel_err, args.tolerance),
                            expression |->
                              graph_topology_to_expression(topology)]} :
              /\ rng' = G.rng
              /\ pos' = pos + 1
              /\ IF G.none
                 THEN /\ pc' = pc
                      /\ UNCHANGED <<updates, solutions, generated,
                                     best_error>>
                 ELSE /\ generated' = Append(generated, G.graph)
                      /\ IF out.raised
                         THEN /\ pc' = "raised"
                              /\ UNCHANGED <<updates, solutions, best_error>>
                         ELSE IF RLeq(out.ceq, Q(0))
                         THEN /\ pc' = pc
                              /\ UNCHANGED <<updates, solutions, best_error>>
                         ELSE /\ pc' = pc
                              /\ best_error' = best
                              /\ solutions' = Append(solutions, solution)
                              /\ updates' =
                                   IF args.progress_cb
                                      /\ pos % HeuristicProgressEvery = 0
                                   THEN Append(updates,
                                          ProgressUpdateBest(pos,
                                            args.iterations, best))
                                   ELSE updates
  /\ UNCHANGED <<fn, args, result, enumVars, topologies, seen_normalized,
                 hash_order, previous, solveVars>>

\* a return whose sort and slice sit inside the `if progress_cb` block
HeurReturnInsideCallbackBlock ==
  /\ pc = "searching" /\ pos > args.iterations
  /\ updates' = IF args.progress_cb
                THEN Append(updates,
                       ProgressUpdateBest(args.iterations, args.iterations,
                                          best_error))
                ELSE updates
  /\ result' = IF args.progress_cb
               THEN Take(rank_solutions(solutions), args.top_k)
               ELSE solutions
  /\ pc' = "done"
  /\ UNCHANGED <<fn, args, enumVars, poolVars, heurVars, solveVars>>

\* after the loop: final progress update, sort, top K
HeurReturn ==
  /\ pc = "searching" /\ pos > args.iterations
  /\ updates' = IF args.progress_cb
                THEN Append(updates,
                       ProgressUpdateBest(args.iterations, args.iterations,
                                          best_error))
                ELSE updates
  /\ result' = Take(rank_solutions(solutions), args.top_k)
  /\ pc' = "done"
  /\ UNCHANGED <<fn, args, enumVars, poolVars, heurVars, solveVars>>

\* heuristic_search run long enough for `(i + 1) % 50 == 0` to hold
LongIterations == 50
LongSeeds == 0..7
CallHeuristicLong ==
  /\ Idle
  /\ \E caps \in HeurCapLists, seed \in LongSeeds, cb \in BOOLEAN,
        max_internal_nodes \in 0..DefaultMaxInternalNodes,
        order \in HashOrders :
       StartHeuristic([capacitors |-> ToQ(caps), target |-> Q(1),
                       iterations |-> LongIterations,
                       max_internal_nodes |-> max_internal_nodes,
                       seed |-> seed, tolerance |-> Q(5),
                       top_k |-> 1, progress_cb |-> cb],
                      order, <<>>)

NextLong ==
  \/ CallHeuristicLong
  \/ HeurIterate
  \/ HeurReturn
  \/ CallerContinues

SpecLong == Init /\ [][NextLong]_vars

NextHeur ==
  \/ CallHeuristic
  \/ CallHeuristicAgain
  \/ HeurIterate
  \/ HeurReturn
  \/ CallerContinues

SpecHeur == Init /\ [][NextHeur]_vars

(***************************************************************************)
(* Exhaustive SP-graph search (sp_graph_exhaustive.py)                     *)
(*                                                                         *)
(* A multigraph is [nodes |-> list of nodes, edges |-> list of [u, v,      *)
(* data]]; its nodes are the integers 0..(V - 1).  The result of           *)
(* is_sp_reducible depends on the set of nodes, their order and the        *)
(* multiset of edges only, so the order of the edge list stands for the    *)
(* adjacency order of networkx without loss.                               *)
(***************************************************************************)
Multiplicity(G, a, b) ==
  Cardinality({i \in 1..Len(G.edges) :
                 \/ G.edges[i].u = a /\ G.edges[i].v = b
                 \/ G.edges[i].u = b /\ G.edges[i].v = a})

\* G.degree(n) of a MultiGraph without self-loops
Degree(G, n) ==
  Cardinality({i \in 1..Len(G.edges) :
                 G.edges[i].u = n \/ G.edges[i].v = n})

Joins(e, a, b) == (e.u = a /\ e.v = b) \/ (e.u = b /\ e.v = a)

\* a bundle taken for its first edge
SumCapacityFirstOnly(edges) == Head(edges).data.capacity

RECURSIVE SumCapacity(_)
SumCapacity(edges) ==
  IF edges = <<>> THEN Q(0)
  ELSE RAdd(Head(edges).data.capacity, SumCapacity(Tail(edges)))

\* a parallel pass that finds no bundle
NoParallelBundles(G) == <<>>

\* the node pairs u < v (positions in G.nodes) joined by more than one edge
ParallelBundles(G) ==
  SelectSeq(AllPairs(Len(G.nodes)),
            LAMBDA p : Multiplicity(G, G.nodes[p[1]], G.nodes[p[2]]) > 1)

\* remove all edges of each bundle, add one edge with the summed capacity
ReduceParallel(G, bundles) ==
  LET InBundle(e) ==
        \E k \in 1..Len(bundles) :
          Joins(e, G.nodes[bundles[k][1]], G.nodes[bundles[k][2]])
      combined ==
        [k \in 1..Len(bundles) |->
           LET u == G.nodes[bundles[k][1]]
               v == G.nodes[bundles[k][2]]
           IN  Edge(u, v, [capacity |->
                 SumCapacity(SelectSeq(G.edges,
                                       LAMBDA e : Joins(e, u, v)))])]
  IN  [nodes |-> G.nodes,
       edges |-> SelectSeq(G.edges, LAMBDA e : ~InBundle(e)) \o combined]

\* a first-degree-2-node search that does not skip the terminals
SeriesNodeWithTerminals(G, term_a, term_b) ==
  Take(SelectSeq(G.nodes, LAMBDA n : Degree(G, n) = 2), 1)

\* the first node of G.nodes that is no terminal and has degree 2, as a
\* list of at most one node
SeriesNode(G, term_a, term_b) ==
  LET candidates == SelectSeq(G.nodes,
                              LAMBDA n : n # term_a /\ n # term_b
                                         /\ Degree(G, n) = 2)
  IN  Take(candidates, 1)

RemoveNode(G, n) ==
  [nodes |-> SelectSeq(G.nodes, LAMBDA m : m # n),
   edges |-> SelectSeq(G.edges, LAMBDA e : e.u # n /\ e.v # n)]

\* the first edge between a and b: list(G[a][b].values())[0]
FirstEdge(G, a, b) ==
  G.edges[CHOOSE i \in 1..Len(G.edges) :
            /\ Joins(G.edges[i], a, b)
            /\ \A j \in 1..(i - 1) : ~Joins(G.edges[j], a, b)]

\* two capacitors in series taken for their sum
SeriesCapacityAsSum(c1, c2) == RAdd(c1, c2)

\* c_new = 1.0 / (1.0/c1 + 1.0/c2), for c1 and c2 other than 0
SeriesCapacity(c1, c2) ==
  RDiv(Q(1), RAdd(RDiv(Q(1), c1), RDiv(Q(1), c2)))

\* an edge added once from u to v and once from v to u
AddEdgeBothWays(G, u, v, capacity) ==
  [nodes |-> G.nodes,
   edges |-> G.edges \o <<Edge(u, v, [capacity |-> capacity]),
                           Edge(v, u, [capacity |-> capacity])>>]

\* G.add_edge(u, v, capacity=c_new)
AddEdge(G, u, v, capacity) ==
  [nodes |-> G.nodes,
   edges |-> Append(G.edges, Edge(u, v, [capacity |-> capacity]))]

\* return None; G is the working graph as the loop left it, trace the
\* number of its edges
NotReducible(G) == [none |-> TRUE, raised |-> FALSE, value |-> Q(0),
                    parallel |-> 0, series |-> 0,
                    G |-> G, trace |-> <<Len(G.edges)>>]

\* the outcome r of the passes that follow a pass begun on G
AfterPass(G, r) == [r EXCEPT !.trace = <<Len(G.edges)>> \o @]

\* the loop `while changed` of is_sp_reducible and the check after it;
\* parallel and series count the reductions applied, G is the working graph
\* at the end, trace the number of its edges at the start of each pass
RECURSIVE ReduceLoop(_, _, _, _, _)
ReduceLoop(G, term_a, term_b, parallel, series) ==
  The({
    IF bundles # <<>>
    THEN The({AfterPass(G, ReduceLoop(reduced, term_a, term_b,
                                      parallel + Len(bundles), series)) :
                reduced \in {ReduceParallel(G, bundles)}})
    ELSE IF /\ series_node # <<>>
            /\ Cardinality(Neighbors(G, series_node[1])) = 2
    THEN
      The({
      The({
        IF c1 = Q(0) \/ c2 = Q(0)
        THEN \* 1.0 / 0.0: ZeroDivisionError
             [none |-> FALSE, raised |-> TRUE, value |-> Q(0),
              parallel |-> parallel, series |-> series,
              G |-> G, trace |-> <<Len(G.edges)>>]
        ELSE The({AfterPass(G, ReduceLoop(merged, term_a, term_b, parallel,
                                          series + 1)) :
                    merged \in {AddEdge(removed, u, v,
                                        SeriesCapacity(c1, c2))}}) :
          c1 \in {FirstEdge(G, u, n).data.capacity},
          c2 \in {FirstEdge(G, n, v).data.capacity},
          removed \in {RemoveNode(G, n)}}) :
          n \in {series_node[1]},
          u \in {CHOOSE x \in Neighbors(G, series_node[1]) :
                   \A y \in Neighbors(G, series_node[1]) : x <= y},
          v \in {CHOOSE x \in Neighbors(G, series_node[1]) :
                   \A y \in Neighbors(G, series_node[1]) : y <= x}})
    ELSE IF /\ series_node # <<>>
            /\ Cardinality(Neighbors(G, series_node[1])) = 1
    THEN The({AfterPass(G, ReduceLoop(removed, term_a, term_b, parallel,
                                      series)) :
                removed \in {RemoveNode(G, series_node[1])}})
    ELSE IF /\ Len(G.nodes) = 2
            /\ Len(G.edges) = 1
            /\ Multiplicity(G, term_a, term_b) > 0
    THEN [none |-> FALSE, raised |-> FALSE,
          value |-> FirstEdge(G, term_a, term_b).data.capacity,
          parallel |-> parallel, series |-> series,
          G |-> G, trace |-> <<Len(G.edges)>>]
    ELSE NotReducible(G) :
    bundles \in {ParallelBundles(G)},
    series_node \in {SeriesNode(G, term_a, term_b)}})

\* a loop that works on the graph of the caller: G = graph
ReducibleInPlace(graph, term_a, term_b) ==
  The({[none |-> out.none, raised |-> out.raised, value |-> out.value,
        parallel |-> out.parallel, series |-> out.series,
        trace |-> out.trace, graph |-> out.G] :
         out \in {ReduceLoop(graph, term_a, term_b, 0, 0)}})

\* G = graph.copy(): the loop works on G; graph is the graph of the caller
\* as the call leaves it
is_sp_reducible(graph, term_a, term_b) ==
  The({Then(G,
    The({[none |-> out.none, raised |-> out.raised, value |-> out.value,
          parallel |-> out.parallel, series |-> out.series,
          trace |-> out.trace, graph |-> graph] :
           out \in {ReduceLoop(G, term_a, term_b, 0, 0)}})) :
         G \in {graph}})

\* position of the pair (a, b), a < b, among combinations(range(v), 2)
PairIndex(v, a, b) == a * (v - 1) - (a * (a - 1)) \div 2 + (b - a)

RECURSIVE SortedInsert(_, _)
SortedInsert(sorted, x) ==
  IF sorted = <<>> THEN <<x>>
  ELSE IF x <= Head(sorted) THEN <<x>> \o sorted
  ELSE <<Head(sorted)>> \o SortedInsert(Tail(sorted), x)

RECURSIVE SortInts(_)
SortInts(s) ==
  IF s = <<>> THEN <<>> ELSE SortedInsert(SortInts(Tail(s)), Head(s))

\* lexicographic order of two lists of pair positions of equal length
LexLess(s, t) ==
  \E i \in 1..Len(s) : /\ s[i] < t[i]
                       /\ \A j \in 1..(i - 1) : s[j] = t[j]

\* combinations_with_replacement(possible_pairs, num_edges), each choice as
\* the nondecreasing list of the positions of its pairs
EdgeChoicesOn(v, num_edges) ==
  LET n_pairs == (v * (v - 1)) \div 2
  IN  {s \in [1..num_edges -> 1..n_pairs] :
         \A i \in 1..(num_edges - 1) : s[i] <= s[i + 1]}

TemplateOf(v, s) ==
  LET possible_pairs == AllPairs(v)
  IN  [nodes |-> [k \in 1..v |-> k - 1],
       edges |-> [k \in 1..Len(s) |->
                    Edge(possible_pairs[s[k]][1] - 1,
                         possible_pairs[s[k]][2] - 1, <<>>)]]

\* nx.is_connected
is_connected(G) == Reach(G, {G.nodes[1]}) = SeqToSet(G.nodes)

\* the edge choice that renaming the nodes by pi turns s into
Relabel(v, s, pi) ==
  LET possible_pairs == AllPairs(v)
  IN  SortInts([k \in 1..Len(s) |->
        LET a == pi[possible_pairs[s[k]][1]] - 1
            b == pi[possible_pairs[s[k]][2]] - 1
        IN  IF a < b THEN PairIndex(v, a, b) ELSE PairIndex(v, b, a)])

\* a loop over combinations, not combinations_with_replacement: a choice
\* that takes a pair of nodes twice is never made
AppendedWithoutRepeatedPairs(v, s) ==
  /\ \A i, j \in 1..Len(s) : i < j => s[i] # s[j]
  /\ is_connected(TemplateOf(v, s))
  /\ \A pi \in Permutations(1..v) : ~LexLess(Relabel(v, s, pi), s)

\* The loop over the edge choices appends a connected choice unless
\* nx.is_isomorphic finds it isomorphic to an appended one, that is unless
\* a renaming of the nodes keeps the number of edges of every pair.
\* Every renaming of a connected choice
\* is a connected choice on the same nodes, and isomorphism is an
\* equivalence, so the choice appended for each class is the first of the
\* class in the order of the loop: a choice is appended exactly when no
\* renaming of it comes before it.
Appended(v, s) ==
  /\ is_connected(TemplateOf(v, s))
  /\ \A pi \in Permutations(1..v) : ~LexLess(Relabel(v, s, pi), s)

RECURSIVE InLoopOrder(_)
InLoopOrder(S) ==
  IF S = {} THEN <<>>
  ELSE LET first == CHOOSE s \in S : \A t \in S \ {s} : LexLess(s, t)
       IN  <<first>> \o InLoopOrder(S \ {first})

\* the topologies appended while v has a given value
TopologiesOn(v, num_edges) ==
  LET appended == InLoopOrder({s \in EdgeChoicesOn(v, num_edges) :
                                 Appended(v, s)})
  IN  [k \in 1..Len(appended) |-> TemplateOf(v, appended[k])]

RECURSIVE TopologiesFrom(_, _)
TopologiesFrom(v, num_edges) ==
  IF v > num_edges + 1 THEN <<>>
  ELSE TopologiesOn(v, num_edges) \o TopologiesFrom(v + 1, num_edges)

generate_topologies(num_edges) == TopologiesFrom(2, num_edges)

\* every list of `lists` with x put in front
RECURSIVE PrependAll(_, _)
PrependAll(x, lists) ==
  IF lists = <<>> THEN <<>>
  ELSE <<(<<x>> \o Head(lists))>> \o PrependAll(x, Tail(lists))

\* itertools.permutations(items), in its order: by the position of the first
\* item taken, then by the permutation of the others
RECURSIVE permutations(_)
RECURSIVE PermutationsFrom(_, _)
PermutationsFrom(items, i) ==
  IF i > Len(items) THEN <<>>
  ELSE PrependAll(items[i], permutations(Remove(items, i)))
       \o PermutationsFrom(items, i + 1)

permutations(items) ==
  IF items = <<>> THEN <<<<>>>> ELSE PermutationsFrom(items, 1)

\* G = G_template.copy() with cap_perm[i] on the i-th edge
Assign(G_template, cap_perm) ==
  [nodes |-> G_template.nodes,
   edges |-> [i \in 1..Len(G_template.edges) |->
                Edge(G_template.edges[i].u, G_template.edges[i].v,
                     [capacity |-> cap_perm[i]])]]

\* abs(ceq - v) < 1e-15
DedupEps == <<1, 1000>>
SeenValue(seen, ceq) == \E v \in seen : RLess(RAbs(RSub(ceq, v)), DedupEps)

\* the tolerance solve creates its solutions with
SolveTolerance == 5

MaxSolveCaps == 2

\* solve(capacitors, target, max_results = 10, progress_callback = None)
DefaultMaxResults == 10

\* the calls: capacitors, target, max_results, progress_callback; the call
\* of the classroom example leaves the last two to their defaults
SolveInputs ==
  {<<caps, target, max_results, cb>> :
     caps \in SeqsUpTo(CapValues, MaxSolveCaps), target \in Targets,
     max_results \in 1..MaxTopK, cb \in BOOLEAN}
  \cup {<<ClassroomCaps, ClassroomTarget, DefaultMaxResults, FALSE>>}

\* entry of solve; prev: the outcome of the preceding call that this call
\* repeats, if any
StartSolve(a, prev) ==
  /\ fn' = "solve"
  /\ args' = a
  /\ topologies' = generate_topologies(Len(a.capacitors))
  /\ pc' = "solving"
  /\ result' = <<>>
  /\ updates' = <<>>
  /\ solutions' = <<>>
  /\ seen_values' = {}
  /\ current_step' = 0
  /\ perm_index' = 1
  /\ pos' = 1
  /\ previous' = prev
  /\ UNCHANGED <<enumVars, seen_normalized, rng, hash_order, generated,
                 best_error>>

CallSolve ==
  /\ Idle
  /\ \E input \in SolveInputs :
       StartSolve([capacitors |-> ToQ(input[1]),
                   target |-> Q(input[2]),
                   max_results |-> input[3],
                   progress_callback |-> input[4]],
                  previous)

SolvingShape == pc = "solving" /\ current_step < Len(topologies)
TerminalPairs == AllPairs(Len(topologies[current_step + 1].nodes))

\* the body of `for cap_perm in permutations(capacitors)`: the locals
\* [raised, solutions, seen_values] after an iteration begun with `loc`
PermutationStep(G_template, term_a, term_b, target, cap_perm, loc) ==
  The({
  The({
    IF reduced.raised
    THEN \* ZeroDivisionError in the series reduction
         [loc EXCEPT !.raised = TRUE]
    ELSE IF reduced.none \/ SeenValue(loc.seen_values, reduced.value)
    THEN loc
    ELSE IF RLeq(target, Q(0))
    THEN \* create_solution raises ValueError
         [raised |-> TRUE, solutions |-> loc.solutions,
          seen_values |-> loc.seen_values \cup {reduced.value}]
    ELSE [raised |-> FALSE,
          solutions |->
            Append(loc.solutions,
              create_solution(
                GraphTopology(reduced.graph, term_a, term_b,
                  SelectSeq(G_template.nodes,
                            LAMBDA n : n # term_a /\ n # term_b)),
                reduced.value, target, Q(SolveTolerance),
                <<"Graph", Len(G_template.nodes), Len(cap_perm)>>)),
          seen_values |-> loc.seen_values \cup {reduced.value}] :
      reduced \in {is_sp_reducible(G, term_a, term_b)}}) :
      G \in {Assign(G_template, cap_perm)}})

\* one iteration of `for cap_perm in permutations(capacitors)`, for the
\* template topologies[current_step] and the pos-th pair of terminals; the
\* last permutation of a pair moves the loop above to the next pair
SolvePermutation ==
  /\ SolvingShape
  /\ pos <= Len(TerminalPairs)
  /\ \E G_template \in {topologies[current_step + 1]},
        perms \in {permutations(args.capacitors)} :
     \E out \in {PermutationStep(
                   G_template,
                   G_template.nodes[TerminalPairs[pos][1]],
                   G_template.nodes[TerminalPairs[pos][2]],
                   args.target, perms[perm_index],
                   [raised |-> FALSE, solutions |-> solutions,
                    seen_values |-> seen_values])} :
         /\ pc' = IF out.raised THEN "raised" ELSE pc
         /\ solutions' = out.solutions
         /\ seen_values' = out.seen_values
         /\ IF perm_index < Len(perms)
            THEN perm_index' = perm_index + 1 /\ pos' = pos
            ELSE perm_index' = 1 /\ pos' = pos + 1
  /\ UNCHANGED <<fn, args, result, updates, enumVars, topologies,
                 seen_normalized, heurVars, current_step>>

\* an end of iteration that reports before `current_step += 1`
SolveShapeDoneBeforeIncrement ==
  /\ SolvingShape
  /\ pos > Len(TerminalPairs)
  /\ current_step' = current_step + 1
  /\ perm_index' = 1
  /\ updates' = IF args.progress_callback
                THEN Append(updates,
                       ProgressUpdate(current_step, Len(topologies)))
                ELSE updates
  /\ pos' = 1
  /\ UNCHANGED <<pc, fn, args, result, enumVars, topologies, solutions,
                 seen_normalized, heurVars, seen_values>>

\* the end of an iteration of `for G_template in topologies`
SolveShapeDone ==
  /\ SolvingShape
  /\ pos > Len(TerminalPairs)
  /\ current_step' = current_step + 1
  /\ perm_index' = 1
  /\ updates' = IF args.progress_callback
                THEN Append(updates,
                       ProgressUpdate(current_step + 1, Len(topologies)))
                ELSE updates
  /\ pos' = 1
  /\ UNCHANGED <<pc, fn, args, result, enumVars, topologies, solutions,
                 seen_normalized, heurVars, seen_values>>

SolveReturn ==
  /\ pc = "solving" /\ current_step = Len(topologies)
  /\ result' = Take(rank_solutions(solutions), args.max_results)
  /\ pc' = "done"
  /\ UNCHANGED <<fn, args, updates, enumVars, poolVars, heurVars, solveVars>>

\* generate_topologies called on its own
MaxTopologyEdges == 3
CallGenerateTopologies ==
  /\ Idle
  /\ \E num_edges \in 0..MaxTopologyEdges :
       /\ fn' = "generate_topologies"
       /\ args' = [num_edges |-> num_edges]
       /\ result' = generate_topologies(num_edges)
  /\ pc' = "done"
  /\ UNCHANGED <<updates, enumVars, poolVars, heurVars, solveVars>>

NextSolve ==
  \/ CallSolve
  \/ CallGenerateTopologies
  \/ SolvePermutation
  \/ SolveShapeDone
  \/ SolveReturn
  \/ CallerContinues

SpecSolve == Init /\ [][NextSolve]_vars

(***************************************************************************)
(* The three search engines together                                       *)
(***************************************************************************)
NextEngines ==
  \/ CallEnumerate
  \/ CallFindBest
  \/ EnumCacheHit
  \/ EnumLeaf
  \/ EnumSplit
  \/ EnumCallLeft
  \/ EnumCallRight
  \/ EnumCombine
  \/ EnumStore
  \/ EnumFinish
  \/ FindBestStep
  \/ FindBestReturn
  \/ CallHeuristic
  \/ CallHeuristicAgain
  \/ HeurIterate
  \/ HeurReturn
  \/ CallSolve
  \/ SolvePermutation
  \/ SolveShapeDone
  \/ SolveReturn
  \/ CallerContinues

SpecEngines == Init /\ [][NextEngines]_vars

(***************************************************************************)
(* The engines called once more without their progress callback            *)
(***************************************************************************)
\* what is kept of a call that reported to a progress callback
Outcome ==
  <<[generated |-> generated, result |-> result, hash_order |-> hash_order,
     progress_cb |-> TRUE]>>

CallEnumerateWithoutCallback ==
  /\ pc = "done" /\ fn = "enumerate_sp_topologies"
  /\ args.progress_cb /\ previous = <<>>
  /\ StartCallAfter(fn, [args EXCEPT !.progress_cb = FALSE], FALSE, Outcome)

CallFindBestWithoutCallback ==
  /\ pc = "done" /\ fn = "find_best_sp_solutions"
  /\ args.progress_cb /\ previous = <<>>
  /\ StartCallAfter(fn, [args EXCEPT !.progress_cb = FALSE], FALSE, Outcome)

CallHeuristicWithoutCallback ==
  /\ pc = "done" /\ fn = "heuristic_search"
  /\ args.progress_cb /\ previous = <<>>
  /\ StartHeuristic([args EXCEPT !.progress_cb = FALSE], hash_order, Outcome)

CallSolveWithoutCallback ==
  /\ pc = "done" /\ fn = "solve"
  /\ args.progress_callback /\ previous = <<>>
  /\ StartSolve([args EXCEPT !.progress_callback = FALSE], Outcome)

NextCallback ==
  \/ NextEngines
  \/ CallEnumerateWithoutCallback
  \/ CallFindBestWithoutCallback
  \/ CallHeuristicWithoutCallback
  \/ CallSolveWithoutCallback

SpecCallback == Init /\ [][NextCallback]_vars

(***************************************************************************)
(* Canonical expressions of rewritten trees (sp_structures.py)             *)
(***************************************************************************)
MaxLeaves == 4
NumLabels == 2

Node(op, l, r) == IF op = "Series" THEN Series(l, r) ELSE Parallel(l, r)

RECURSIVE TreesWith(_)
TreesWith(n) ==
  IF n = 1 THEN {Leaf(i, Q(1)) : i \in 0..(NumLabels - 1)}
  ELSE UNION {{Node(op, l, r) : op \in {"Series", "Parallel"},
                                l \in TreesWith(k), r \in TreesWith(n - k)}
              : k \in 1..(n - 1)}

Trees == UNION {TreesWith(n) : n \in 1..MaxLeaves}

\* the trees obtained by swapping the children of one Series or Parallel node
RECURSIVE SwapVariants(_)
SwapVariants(t) ==
  IF t.op = "Leaf" THEN {}
  ELSE {Node(t.op, t.right, t.left)}
       \cup {Node(t.op, l, t.right) : l \in SwapVariants(t.left)}
       \cup {Node(t.op, t.left, r) : r \in SwapVariants(t.right)}

\* the trees obtained by re-associating one nested pair of equal operators
RECURSIVE AssocVariants(_)
AssocVariants(t) ==
  IF t.op = "Leaf" THEN {}
  ELSE (IF t.left.op = t.op
        THEN {Node(t.op, t.left.left, Node(t.op, t.left.right, t.right))}
        ELSE {})
       \cup (IF t.right.op = t.op
             THEN {Node(t.op, Node(t.op, t.left, t.right.left), t.right.right)}
             ELSE {})
       \cup {Node(t.op, l, t.right) : l \in AssocVariants(t.left)}
       \cup {Node(t.op, t.left, r) : r \in AssocVariants(t.right)}

Normalized == pc = "done" /\ fn = "sp_node_to_normalized_expression"

NormalizeCall(t, rewrite) ==
  /\ fn' = "sp_node_to_normalized_expression"
  /\ args' = [node |-> t, rewrite |-> rewrite]
  /\ result' = sp_node_to_normalized_expression(t, capacitor_labels(NumLabels))
  /\ pc' = "done"
  /\ UNCHANGED <<updates, enumVars, poolVars, heurVars, solveVars>>

CallNormalize ==
  /\ Idle
  /\ \E t \in Trees : NormalizeCall(t, "none")

\* the same call on the tree with two children swapped
CallNormalizeSwapped ==
  /\ Normalized
  /\ \E t \in SwapVariants(args.node) : NormalizeCall(t, "swap")

\* the same call on the tree with one chain re-associated
CallNormalizeReassociated ==
  /\ Normalized
  /\ \E t \in AssocVariants(args.node) : NormalizeCall(t, "assoc")

NextCanon ==
  \/ CallNormalize
  \/ CallNormalizeSwapped
  \/ CallNormalizeReassociated
  \/ CallerContinues

SpecCanon == Init /\ [][NextCanon]_vars

(***************************************************************************)
(* is_sp_reducible on its own (sp_graph_exhaustive.py)                     *)
(***************************************************************************)
MaxReduceNodes == 4
MaxReduceEdges == 5
\* capacitances are positive
ReduceWeights == {1, 2}

\* the multigraphs on v nodes with num_edges weighted edges
WeightedGraphs(v, num_edges) ==
  {Assign(TemplateOf(v, s), ToQ(w)) :
     s \in EdgeChoicesOn(v, num_edges),
     w \in [1..num_edges -> ReduceWeights]}

\* the two-terminal multigraph that an SP tree describes: a Leaf is an edge,
\* Parallel shares both end nodes, Series shares a new internal node
RECURSIVE TreeEdges(_, _, _, _)
TreeEdges(t, a, b, next) ==
  IF t.op = "Leaf"
  THEN [edges |-> <<Edge(a, b, [capacity |-> t.value])>>, next |-> next]
  ELSE IF t.op = "Parallel"
  THEN The({The({[edges |-> l.edges \o r.edges, next |-> r.next] :
                   r \in {TreeEdges(t.right, a, b, l.next)}}) :
              l \in {TreeEdges(t.left, a, b, next)}})
  ELSE The({The({[edges |-> l.edges \o r.edges, next |-> r.next] :
                   r \in {TreeEdges(t.right, next, b, l.next)}}) :
              l \in {TreeEdges(t.left, a, next, next + 1)}})

TreeGraph(t) ==
  The({[nodes |-> [k \in 1..built.next |-> k - 1], edges |-> built.edges] :
         built \in {TreeEdges(t, 0, 1, 2)}})

MaxTreeLeaves == 4
RECURSIVE WeightedTrees(_)
WeightedTrees(n) ==
  IF n = 1 THEN {Leaf(0, Q(w)) : w \in ReduceWeights}
  ELSE UNION {{Node(op, l, r) : op \in {"Series", "Parallel"},
                                l \in WeightedTrees(k),
                                r \in WeightedTrees(n - k)}
              : k \in 1..(n - 1)}

\* tree: the SP tree the graph was drawn from, if any, as a list
ReducibleCall(graph, term_a, term_b, tree) ==
  \E out \in {is_sp_reducible(graph, term_a, term_b)} :
    /\ fn' = "is_sp_reducible"
    /\ args' = [graph |-> graph, term_a |-> term_a, term_b |-> term_b,
                tree |-> tree]
    /\ result' = out
    /\ pc' = IF out.raised THEN "raised" ELSE "done"
    /\ UNCHANGED <<updates, enumVars, poolVars, heurVars, solveVars>>

CallReducible ==
  /\ Idle
  /\ \E v \in 2..MaxReduceNodes, num_edges \in 1..MaxReduceEdges :
       \E graph \in WeightedGraphs(v, num_edges) :
         \E term_a, term_b \in 0..(v - 1) :
           /\ term_a < term_b
           /\ ReducibleCall(graph, term_a, term_b, <<>>)

CallReducibleOfTree ==
  /\ Idle
  /\ \E n \in 1..MaxTreeLeaves :
       \E t \in WeightedTrees(n) : ReducibleCall(TreeGraph(t), 0, 1, <<t>>)

\* solve builds each topology from the graph it handed to is_sp_reducible
NextCallers ==
  \/ CallReducible
  \/ CallReducibleOfTree
  \/ CallSolve
  \/ SolvePermutation
  \/ SolveShapeDone
  \/ SolveReturn
  \/ CallerContinues

SpecCallers == Init /\ [][NextCallers]_vars

NextReduce ==
  \/ CallReducible
  \/ CallReducibleOfTree
  \/ CallerContinues

SpecReduce == Init /\ [][NextReduce]_vars

(***************************************************************************)
(* Properties                                                              *)
(***************************************************************************)
EnumerateReturned == pc = "done" /\ fn = "enumerate_sp_topologies"
FindBestReturned == pc = "done" /\ fn = "find_best_sp_solutions"

\* the trees enumerate_sp_topologies handed back, to its caller or to
\* find_best_sp_solutions
EnumeratedTrees == IF fn = "enumerate_sp_topologies" THEN result ELSE topologies
TreesAvailable == EnumerateReturned \/ pc = "scoring" \/ FindBestReturned

TreeCount(n) ==
  IF n = 1 THEN 1 ELSE IF n = 2 THEN 2 ELSE IF n = 3 THEN 8
  ELSE IF n = 4 THEN 40 ELSE IF n = 5 THEN 224 ELSE IF n = 6 THEN 1344
  ELSE IF n = 7 THEN 8448 ELSE 54912

WellFormedTree(t, capacitors) ==
  LET n == Len(capacitors)
      idx == LeafIndices(t)
      leaves == LeavesOf(t)
  IN  /\ Len(idx) = n
      /\ SeqToSet(idx) = 0..(n - 1)
      /\ NodeCount(t) = 2 * n - 1
      /\ \A k \in 1..Len(leaves) :
           leaves[k].value = capacitors[leaves[k].capacitor_index + 1]

C2_TreeWellFormed ==
  TreesAvailable =>
    \A k \in 1..Len(EnumeratedTrees) :
      WellFormedTree(EnumeratedTrees[k], args.capacitors)

C2_Witness ==
  /\ EnumerateReturned
  /\ Len(args.capacitors) = 3
  /\ \E k \in 1..Len(result) :
       /\ result[k].op = "Series"
       /\ result[k].left.op = "Parallel"
       /\ result[k].right.value = Q(2)

\* the engines that rank a candidate pool, and the top-K each was asked for
EngineReturned ==
  pc = "done" /\ fn \in {"find_best_sp_solutions", "heuristic_search", "solve"}
TopK == IF fn = "solve" THEN args.max_results ELSE args.top_k

\* position of pool[i] in the stable ascending order: the candidates with a
\* smaller error, and those of equal error generated no later
StableRank(pool, i) ==
  Cardinality({p \in 1..Len(pool) :
                 \/ RLess(pool[p].absolute_error, pool[i].absolute_error)
                 \/ /\ pool[p].absolute_error = pool[i].absolute_error
                    /\ p <= i})

\* C3: the list an engine returns is the first topK candidates of its pool in
\* stable ascending order of absolute_error: ascending, of length
\* min(topK, pool size), ties in generation order, and nothing left out is
\* strictly better than something returned.
C3_RankedTopK ==
  EngineReturned =>
    /\ Len(result) = Min(TopK, Len(solutions))
    /\ \A i \in 1..(Len(result) - 1) :
         RLeq(result[i].absolute_error, result[i + 1].absolute_error)
    /\ \A i \in 1..Len(solutions) :
         IF StableRank(solutions, i) <= Len(result)
         THEN result[StableRank(solutions, i)] = solutions[i]
         ELSE \A j \in 1..Len(result) :
                RLeq(result[j].absolute_error, solutions[i].absolute_error)

C3_Witness ==
  /\ EngineReturned
  /\ Len(solutions) > TopK
  /\ Len(result) = TopK
  /\ TopK >= 2
  /\ result[1].absolute_error = result[2].absolute_error
  /\ result[1] # result[2]

\* C5: with deduplicate the pool holds exactly one solution per canonical
\* expression of the enumerated trees, the first such tree in enumeration
\* order, reported with its own expression; without it the pool holds one
\* solution per tree.  The pool is the list before the topK cut.
Canon(t) ==
  sp_node_to_normalized_expression(t, capacitor_labels(Len(args.capacitors)))
FirstWithCanon(j) ==
  \A i \in 1..(j - 1) : Canon(topologies[i]) # Canon(topologies[j])

C5_DedupFirstSeen ==
  FindBestReturned =>
    IF args.deduplicate
    THEN /\ \A k1, k2 \in 1..Len(solutions) :
              k1 # k2 => Canon(solutions[k1].topology)
                           # Canon(solutions[k2].topology)
         /\ \A j \in 1..(pos - 1) :
              \E k \in 1..Len(solutions) :
                Canon(solutions[k].topology) = Canon(topologies[j])
         /\ \A k \in 1..Len(solutions) :
              /\ \E j \in 1..(pos - 1) :
                   topologies[j] = solutions[k].topology /\ FirstWithCanon(j)
              /\ solutions[k].expression =
                   sp_node_to_expression(solutions[k].topology,
                      capacitor_labels(Len(args.capacitors)))
    ELSE /\ Len(solutions) = pos - 1
         /\ \A k \in 1..Len(solutions) :
              solutions[k].topology = topologies[k]

C5_Witness ==
  /\ FindBestReturned
  /\ args.deduplicate
  /\ Len(topologies) = 8
  /\ Len(solutions) < Len(topologies)
  /\ Len(solutions) > Len(result)

\* C6: on the classroom input [3pF, 2pF, 3pF, 1pF] with target 1pF
\* find_best_sp_solutions returns a best solution with absolute_error < 1e-15 F.
ExactEps == <<1, 1000>>
C6_ClassroomExact ==
  (/\ FindBestReturned
   /\ args.capacitors = ToQ(ClassroomCaps)
   /\ args.target = Q(ClassroomTarget))
    => /\ result # <<>>
       /\ RLess(result[1].absolute_error, ExactEps)

\* C4: swapping the children of any Series or Parallel node, or
\* re-associating a chain of equal operators anywhere in a tree, leaves the
\* string of sp_node_to_normalized_expression unchanged.
C4_CanonInvariant ==
  [][(Normalized /\ Normalized') => result' = result]_vars

C4_Witness ==
  /\ Normalized
  /\ args.rewrite = "assoc"
  /\ args.node.op = "Parallel"
  /\ args.node.right.op = "Series"
  /\ args.node.right.left.op = "Series"
  /\ args.node.right.left.left.capacitor_index
       > args.node.right.right.capacitor_index

GraphCeqEnded == fn = "calculate_graph_ceq" /\ pc \in {"done", "raised"}

\* C8: calculate_graph_ceq raises, and returns no (ceq, warning) pair,
\* whenever a terminal is not a node of the graph or an edge lacks a
\* capacitance, also when the terminals are not connected and when the graph
\* has more than two nodes.
C8_RaisesOnInvalidGraph ==
  (/\ GraphCeqEnded
   /\ \/ ~HasNode(args.graph, args.terminal_a)
      \/ ~HasNode(args.graph, args.terminal_b)
      \/ MissingCapacitance(args.graph))
    => pc = "raised"

\* no path joins a and b: some set of nodes holds a, not b, and no edge
\* leaves it
Separated(graph, a, b) ==
  \E S \in SUBSET SeqToSet(graph.nodes) :
    /\ a \in S
    /\ b \notin S
    /\ \A i \in 1..Len(graph.edges) :
         (graph.edges[i].u \in S) = (graph.edges[i].v \in S)

HeuristicRepeated ==
  pc = "done" /\ fn = "heuristic_search" /\ previous # <<>>

SameRanking(a, b) ==
  /\ Len(a) = Len(b)
  /\ \A i \in 1..Len(a) : /\ a[i].ceq = b[i].ceq
                          /\ a[i].absolute_error = b[i].absolute_error

\* C10: two calls of heuristic_search with identical capacitors, target,
\* iterations, max_internal_nodes, seed, tolerance and top_k generate the
\* same sequence of graphs and return lists that agree, position by
\* position, on ceq and absolute error.
C10_SeedDeterminism ==
  HeuristicRepeated =>
    /\ generated = previous[1].generated
    /\ SameRanking(result, previous[1].result)

SolveReturned == pc = "done" /\ fn = "solve"
ClassroomSolved ==
  /\ SolveReturned
  /\ args.capacitors = ToQ(ClassroomCaps)
  /\ args.target = Q(ClassroomTarget)

\* C7: solve on capacitors [3pF, 2pF, 3pF, 1pF] with target 1pF returns a
\* non-empty list whose first solution has absolute_error < 1e-15 (its ceq
\* is the target), found as a 4-edge multigraph with internal nodes that
\* reduces by one parallel and two series steps.
C7_SolveClassroom ==
  ClassroomSolved =>
    /\ result # <<>>
    /\ RLess(result[1].absolute_error, ExactEps)
    /\ result[1].ceq = Q(ClassroomTarget)
    /\ Len(result[1].topology.graph.edges) = 4
    /\ result[1].topology.internal_nodes # <<>>
    /\ LET reduced == is_sp_reducible(result[1].topology.graph,
                                      result[1].topology.terminal_a,
                                      result[1].topology.terminal_b)
       IN  reduced.parallel = 1 /\ reduced.series = 2

C7_Witness ==
  /\ ClassroomSolved
  /\ result # <<>>
  /\ result[1].ceq = Q(1)
  /\ current_step = Len(topologies)

\* nothing was built and nothing was reported by the current call
NothingBuilt ==
  /\ result = <<>>
  /\ updates = <<>>
  /\ cache = <<>>
  /\ stack = <<>>
  /\ topologies = <<>>
  /\ solutions = <<>>
  /\ current_count = 0

NonPositiveIn(capacitors) ==
  \E i \in 1..Len(capacitors) : capacitors[i][1] <= 0

\* C11: enumerate_sp_topologies raises a validation error and returns no
\* tree when the capacitor list is empty or holds a value <= 0, before any
\* tree is built and before the progress callback is invoked.
C11_EnumerateValidates ==
  (/\ fn = "enumerate_sp_topologies"
   /\ \/ args.capacitors = <<>>
      \/ NonPositiveIn(args.capacitors))
    => pc = "raised" /\ NothingBuilt

C11_Witness ==
  /\ fn = "enumerate_sp_topologies"
  /\ pc = "raised"
  /\ args.progress_cb
  /\ Len(args.capacitors) = 3
  /\ args.capacitors[1] = Q(1)
  /\ args.capacitors[3] = Q(0)

\* C12: find_best_sp_solutions raises a validation error when target <= 0
\* or tolerance < 0, before any tree is enumerated and before the progress
\* callback is invoked; with a valid target and tolerance it raises when the
\* capacitor list is empty.
C12_FindBestValidates ==
  fn = "find_best_sp_solutions" =>
    /\ (args.target[1] <= 0 \/ args.tolerance[1] < 0)
         => pc = "raised" /\ NothingBuilt
    /\ (args.target[1] > 0 /\ args.tolerance[1] >= 0 /\ args.capacitors = <<>>)
         => pc = "raised" /\ result = <<>>

C12_Witness ==
  /\ fn = "find_best_sp_solutions"
  /\ pc = "raised"
  /\ args.progress_cb
  /\ args.target = Q(1)
  /\ args.tolerance = Q(-1)
  /\ args.capacitors = <<Q(1), Q(2)>>

\* C13: heuristic_search and solve each end in an input-validation error,
\* never in a returned result list, when called with an empty capacitor
\* list, with a capacitor value <= 0, or with a target <= 0.
C13_EnginesValidate ==
  (/\ fn \in {"heuristic_search", "solve"}
   /\ \/ args.capacitors = <<>>
      \/ NonPositiveIn(args.capacitors)
      \/ args.target[1] <= 0)
    => pc # "done"

ReducibleReturned == fn = "is_sp_reducible" /\ pc \in {"done", "raised"}

\* the edges of G whose positions are not in I
WithoutEdges(G, I) ==
  LET ids == SelectSeq([k \in 1..Len(G.edges) |-> k], LAMBDA k : k \notin I)
  IN  [k \in 1..Len(ids) |-> G.edges[ids[k]]]

\* two edges that join the same pair of nodes
ParallelPairs(G) ==
  {p \in (1..Len(G.edges)) \X (1..Len(G.edges)) :
     /\ p[1] < p[2]
     /\ Joins(G.edges[p[2]], G.edges[p[1]].u, G.edges[p[1]].v)}

\* the nodes between exactly two edges to two distinct neighbours
SeriesNodes(G, a, b) ==
  {n \in SeqToSet(G.nodes) \ {a, b} :
     Degree(G, n) = 2 /\ Cardinality(Neighbors(G, n)) = 2}

\* The rules applied one at a time until none applies, series before
\* parallel, the last candidate first: the irreducible graph left. The
\* rules commute, so the graph left has the same shape and weights
\* whatever the order.
RECURSIVE Exhaust(_, _, _)
Exhaust(G, a, b) ==
  IF SeriesNodes(G, a, b) # {}
  THEN LET n == CHOOSE x \in SeriesNodes(G, a, b) :
                  \A y \in SeriesNodes(G, a, b) : y <= x
           i == CHOOSE k \in 1..Len(G.edges) :
                  /\ n \in {G.edges[k].u, G.edges[k].v}
                  /\ \A j \in 1..(k - 1) : n \notin {G.edges[j].u, G.edges[j].v}
           j == CHOOSE k \in (i + 1)..Len(G.edges) :
                  n \in {G.edges[k].u, G.edges[k].v}
           u == CHOOSE x \in {G.edges[i].u, G.edges[i].v} : x # n
           v == CHOOSE x \in {G.edges[j].u, G.edges[j].v} : x # n
           c1 == G.edges[i].data.capacity
           c2 == G.edges[j].data.capacity
       IN  Exhaust([nodes |-> SelectSeq(G.nodes, LAMBDA m : m # n),
                    edges |-> WithoutEdges(G, {i, j})
                              \o <<Edge(u, v, [capacity |->
                                     RDiv(RMul(c1, c2), RAdd(c1, c2))])>>],
                   a, b)
  ELSE IF ParallelPairs(G) # {}
  THEN LET p == CHOOSE q \in ParallelPairs(G) : TRUE
       IN  Exhaust([nodes |-> G.nodes,
                    edges |-> WithoutEdges(G, {p[1], p[2]})
                              \o <<Edge(G.edges[p[1]].u, G.edges[p[1]].v,
                                        [capacity |->
                                           RAdd(G.edges[p[1]].data.capacity,
                                                G.edges[p[2]].data.capacity)])>>],
                   a, b)
  ELSE G

\* two nodes joined by one edge between the terminals
SingleEdge(H, a, b) ==
  /\ Len(H.nodes) = 2
  /\ Len(H.edges) = 1
  /\ Joins(H.edges[1], a, b)

\* the bridge A-C, A-D, C-B, D-B, C-D: four nodes, every pair joined by
\* one edge but the two terminals
Wheatstone(G, a, b) ==
  /\ Len(G.nodes) = 4
  /\ Len(G.edges) = 5
  /\ Multiplicity(G, a, b) = 0
  /\ \A x, y \in SeqToSet(G.nodes) :
       (x # y /\ {x, y} # {a, b}) => Multiplicity(G, x, y) = 1

C15_ReducibleAgreesWithTree ==
  (ReducibleReturned /\ args.tree # <<>>)
    => /\ pc = "done"
       /\ ~result.none
       /\ ~calculate_sp_ceq(args.tree[1]).raised
       /\ result.value = calculate_sp_ceq(args.tree[1]).value

C15_Witness ==
  /\ ReducibleReturned
  /\ args.tree # <<>>
  /\ Len(args.graph.edges) = 4
  /\ result.parallel >= 1
  /\ result.series >= 1
  /\ result.value = <<5, 3>>

REq(a, b) == Norm(a[1], a[2]) = Norm(b[1], b[2])

\* the tolerance the engine passes on: its argument, or 5.0 in solve
ToleranceOf(engine, a) == IF engine = "solve" THEN Q(5) ELSE a.tolerance

MetricsHold(s, target, tolerance) ==
  /\ s.target = target
  /\ s.absolute_error[1] >= 0
  /\ \/ RLeq(target, s.ceq) /\ REq(RAdd(target, s.absolute_error), s.ceq)
     \/ RLeq(s.ceq, target) /\ REq(RAdd(s.ceq, s.absolute_error), target)
  /\ REq(RMul(s.relative_error, target), RMul(s.absolute_error, Q(100)))
  /\ s.within_tolerance = RLeq(s.relative_error, tolerance)

\* C16: every Solution returned by find_best_sp_solutions, heuristic_search
\* or solve has absolute_error = |ceq - target|, relative_error =
\* absolute_error / target * 100 and within_tolerance = (relative_error <= T),
\* T the tolerance argument, or 5.0 for solve; with target <= 0
\* create_solution raises and no Solution is built.
C16_SolutionMetrics ==
  fn \in {"find_best_sp_solutions", "heuristic_search", "solve"} =>
    /\ \A i \in 1..Len(result) :
         MetricsHold(result[i], args.target, ToleranceOf(fn, args))
    /\ args.target[1] <= 0 =>
         /\ solutions = <<>>
         /\ result = <<>>
         /\ (fn = "solve" /\ seen_values # {}) => pc = "raised"

C16_Witness ==
  /\ fn = "solve"
  /\ pc = "done"
  /\ Len(result) >= 2
  /\ result[1].within_tolerance
  /\ ~result[2].within_tolerance
  /\ result[2].relative_error = Q(300)

LaplacianBuilt == fn = "build_laplacian_matrix" /\ pc = "done"

\* the positions of the edges of graph that touch i, or that join i and j
EdgesAt(graph, i) ==
  {k \in 1..Len(graph.edges) : i \in {graph.edges[k].u, graph.edges[k].v}}
EdgesBetween(graph, i, j) ==
  {k \in 1..Len(graph.edges) : {graph.edges[k].u, graph.edges[k].v} = {i, j}}

RECURSIVE WeightOf(_, _)
WeightOf(graph, I) ==
  IF I = {} THEN Q(0)
  ELSE LET k == CHOOSE x \in I : TRUE
       IN  RAdd(graph.edges[k].data.capacitance, WeightOf(graph, I \ {k}))

RECURSIVE RowSum(_, _)
RowSum(row, S) ==
  IF S = {} THEN Q(0)
  ELSE LET j == CHOOSE x \in S : TRUE
       IN  RAdd(row[j], RowSum(row, S \ {j}))

\* C17: the matrix L of build_laplacian_matrix is square over the nodes of
\* the graph and symmetric, each of its rows sums to zero, L[i][i] is the
\* sum of the weights of the edges at i and L[i][j], i # j, is minus the
\* weight of the edge between i and j (zero without an edge).
C17_LaplacianShape ==
  LaplacianBuilt =>
    LET L == result[1]
        names == SeqToSet(args.graph.nodes)
    IN  /\ result[2] = args.graph.nodes
        /\ DOMAIN L = names
        /\ \A i \in names :
             /\ DOMAIN L[i] = names
             /\ RowSum(L[i], names) = Q(0)
             /\ L[i][i] = WeightOf(args.graph, EdgesAt(args.graph, i))
             /\ \A j \in names \ {i} :
                  /\ L[i][j] = L[j][i]
                  /\ RAdd(L[i][j],
                          WeightOf(args.graph, EdgesBetween(args.graph, i, j)))
                       = Q(0)

C17_Witness ==
  /\ LaplacianBuilt
  /\ Len(args.graph.nodes) = 4
  /\ Len(args.graph.edges) = 3
  /\ result[1]["n1"]["n1"] = Q(5)
  /\ result[1]["A"]["n1"] = Q(-2)
  /\ result[1]["A"]["B"] = Q(0)

\* the graph is one simple path from a to b through all of its nodes, every
\* edge with a positive capacitance
SimplePath(graph, a, b) ==
  /\ HasNode(graph, a) /\ HasNode(graph, b)
  /\ Len(graph.edges) = Len(graph.nodes) - 1
  /\ \A k \in 1..Len(graph.edges) :
       /\ "capacitance" \in DOMAIN graph.edges[k].data
       /\ graph.edges[k].data.capacitance[1] > 0
  /\ ~\E S \in SUBSET SeqToSet(graph.nodes) :
        /\ a \in S
        /\ S # SeqToSet(graph.nodes)
        /\ \A k \in 1..Len(graph.edges) :
             (graph.edges[k].u \in S) = (graph.edges[k].v \in S)
  /\ \A n \in SeqToSet(graph.nodes) :
       Cardinality(EdgesAt(graph, n)) = IF n \in {a, b} THEN 1 ELSE 2

RECURSIVE InverseSum(_, _)
InverseSum(graph, I) ==
  IF I = {} THEN Q(0)
  ELSE LET k == CHOOSE x \in I : TRUE
       IN  RAdd(RDiv(Q(1), graph.edges[k].data.capacitance),
                InverseSum(graph, I \ {k}))

\* C18: on the path A-C-D-B with three 3pF edges calculate_graph_ceq
\* returns 1pF and no warning; on any simple path between the terminals
\* with weights w1..wk it returns 1/(1/w1 + ... + 1/wk) and no warning.
C18_PathIsSeries ==
  (GraphCeqEnded
   /\ SimplePath(args.graph, args.terminal_a, args.terminal_b))
    => /\ pc = "done"
       /\ result[2] = "None"
       /\ RMul(result[1],
               InverseSum(args.graph, 1..Len(args.graph.edges))) = Q(1)
       /\ (/\ Len(args.graph.edges) = 3
           /\ \A k \in 1..3 : args.graph.edges[k].data.capacitance = Q(3))
            => result[1] = Q(1)

C18_Witness ==
  /\ GraphCeqEnded
  /\ args.terminal_a = "A"
  /\ args.terminal_b = "B"
  /\ SimplePath(args.graph, "A", "B")
  /\ Len(args.graph.edges) = 3
  /\ \A k \in 1..3 : args.graph.edges[k].data.capacitance = Q(3)
  /\ result = <<Q(1), "None">>

\* the current call repeats, without a callback, a call that had one
RepeatedWithoutCallback ==
  /\ pc = "done"
  /\ previous # <<>>
  /\ "progress_cb" \in DOMAIN previous[1]

\* C19: each engine (enumerate_sp_topologies, find_best_sp_solutions,
\* heuristic_search, solve) returns, when run without a progress callback,
\* the result it returns with one on the same arguments.
C19_CallbackDoesNotChangeResult ==
  RepeatedWithoutCallback =>
    /\ fn \in {"enumerate_sp_topologies", "find_best_sp_solutions",
               "heuristic_search", "solve"}
    /\ updates = <<>>
    /\ result = previous[1].result

C19_Witness ==
  /\ RepeatedWithoutCallback
  /\ fn = "find_best_sp_solutions"
  /\ args.capacitors = ToQ(ClassroomCaps)
  /\ args.top_k = 3
  /\ Len(result) = 3
  /\ result = previous[1].result

\* a set of indices with no gap
IsRange(S) == \A x, y \in S : \A z \in x..y : z \in S

\* every subtree covers a range of indices and holds them in increasing
\* order from left to right
RECURSIVE ContiguousTree(_)
ContiguousTree(t) ==
  /\ IsRange(SeqToSet(LeafIndices(t)))
  /\ \A k \in 1..(Len(LeafIndices(t)) - 1) :
       LeafIndices(t)[k] < LeafIndices(t)[k + 1]
  /\ t.op # "Leaf" => ContiguousTree(t.left) /\ ContiguousTree(t.right)

TopologiesReturned == fn = "generate_topologies" /\ pc = "done"

\* no proper part of the nodes is closed under the edges
ConnectedGraph(G) ==
  ~\E S \in SUBSET SeqToSet(G.nodes) :
     /\ S # {} /\ S # SeqToSet(G.nodes)
     /\ \A k \in 1..Len(G.edges) : (G.edges[k].u \in S) = (G.edges[k].v \in S)

\* a one-to-one renaming of the nodes keeps the number of edges of every pair
Isomorphic(G, H) ==
  /\ Len(G.nodes) = Len(H.nodes)
  /\ Len(G.edges) = Len(H.edges)
  /\ \E pi \in Permutations(1..Len(G.nodes)) :
       \A i, j \in 1..Len(G.nodes) :
         i < j => Multiplicity(G, G.nodes[i], G.nodes[j])
                    = Multiplicity(H, H.nodes[pi[i]], H.nodes[pi[j]])

\* C21: generate_topologies(N), N >= 1, returns multigraphs that are
\* connected, without self-loop, with exactly N edges and 2..N+1 nodes, and
\* pairwise non-isomorphic; every connected loop-free multigraph with N
\* edges is isomorphic to exactly one of them; for N = 2 they are the double
\* edge on 2 nodes and the path on 3 nodes.
C21_TopologiesComplete ==
  (TopologiesReturned /\ args.num_edges >= 1) =>
    LET N == args.num_edges
    IN  /\ \A k \in 1..Len(result) :
             /\ ConnectedGraph(result[k])
             /\ \A e \in 1..Len(result[k].edges) :
                  result[k].edges[e].u # result[k].edges[e].v
             /\ Len(result[k].edges) = N
             /\ Len(result[k].nodes) \in 2..(N + 1)
             /\ \A m \in 1..Len(result) :
                  m # k => ~Isomorphic(result[k], result[m])
        /\ \A v \in 2..(N + 1) : \A s \in EdgeChoicesOn(v, N) :
             ConnectedGraph(TemplateOf(v, s)) =>
               Cardinality({k \in 1..Len(result) :
                              Isomorphic(TemplateOf(v, s), result[k])}) = 1
        /\ N = 2 => /\ Len(result) = 2
                    /\ Len(result[1].nodes) = 2
                    /\ Multiplicity(result[1], 0, 1) = 2
                    /\ Len(result[2].nodes) = 3

C21_Witness ==
  /\ TopologiesReturned
  /\ args.num_edges = 3
  /\ Len(result) = 5
  /\ Len(result[1].nodes) = 2
  /\ Len(result[5].nodes) = 4

\* the frame of is_sp_reducible in a state: the graph of the caller after the
\* call, and the graphs of the solutions of solve
FrameOfReducible ==
  /\ ReducibleReturned => result.graph = args.graph
  /\ fn = "solve" =>
       \A k \in 1..Len(solutions) :
         LET G == solutions[k].topology.graph
         IN  /\ Len(G.edges) = Len(args.capacitors)
             /\ \E shape \in SeqToSet(topologies),
                   cap_perm \in SeqToSet(permutations(args.capacitors)) :
                   G = Assign(shape, cap_perm)

PositiveCapacitors ==
  \A k \in 1..Len(args.capacitors) : RLess(Q(0), args.capacitors[k])

\* C23: heuristic_search with a callback and iterations = n emits an update
\* with current = k for every multiple k of 50 up to n, in increasing order,
\* then one completion update with current = total = n; every update has
\* total = n and 0 < current <= total.
C23_HeuristicProgress ==
  (pc = "done" /\ fn = "heuristic_search" /\ args.progress_cb) =>
    LET n == args.iterations
        multiples == n \div HeuristicProgressEvery
    IN  /\ Len(updates) = multiples + 1
        /\ \A k \in 1..multiples :
             updates[k].current = k * HeuristicProgressEvery
        /\ updates[multiples + 1].current = n
        /\ \A k \in 1..Len(updates) :
             /\ updates[k].total = n
             /\ 0 < updates[k].current
             /\ updates[k].current <= updates[k].total

\* the updates of solve so far: one per shape left behind, numbered from 1
ShapeUpdates ==
  (fn = "solve" /\ pc \in {"solving", "done"} /\ args.progress_callback) =>
    /\ updates = [k \in 1..current_step |->
                    ProgressUpdate(k, Len(topologies))]
    /\ pc = "done" => current_step = Len(topologies)

\* C24: solve with a callback emits exactly one update per shape of
\* generate_topologies, once all terminal pairs and permutations of the shape
\* were processed; the updates carry current = 1, 2, ..., total in that
\* order, total being the number of shapes, so the last has current = total.
C24_SolveProgress ==
  /\ []ShapeUpdates
  /\ [][(fn = "solve" /\ pc = "solving" /\ updates' # updates) =>
          (/\ pos > Len(TerminalPairs)
           /\ Len(updates') = Len(updates) + 1
           /\ current_step' = current_step + 1)]_vars

C24_Witness ==
  /\ fn = "solve" /\ pc = "done" /\ args.progress_callback
  /\ Len(topologies) = 2
  /\ updates = <<ProgressUpdate(1, 2), ProgressUpdate(2, 2)>>

\* C25: the memoization cache of enumerate_sp_topologies lives for one call
\* only: in any sequence of calls every Leaf of a call's trees has the value
\* capacitors[capacitor_index] of that call, also when the call before it had
\* as many capacitors with other values, and a call with the argument of the
\* call before it returns what that call returned.
C25_CachePerCall ==
  EnumerateReturned =>
    /\ \A k \in 1..Len(result) :
         LET leaves == LeavesOf(result[k])
         IN  \A j \in 1..Len(leaves) :
               leaves[j].value = args.capacitors[leaves[j].capacitor_index + 1]
    /\ (previous # <<>> /\ previous[1].capacitors = args.capacitors) =>
         result = previous[1].result

C25_Witness ==
  /\ EnumerateReturned
  /\ previous # <<>>
  /\ previous[1].capacitors = ToQ(<<1, 2>>)
  /\ args.capacitors = ToQ(<<2, 1>>)
  /\ Len(previous[1].result) = 2
  /\ Len(result) = 2

\* C26: every graph generate_connected_graph returns is connected as a
\* whole: each node, the internal nodes n1..nk included, is reachable from
\* terminal A, as nx.is_connected(G) of its docstring tells.
C26_GeneratedConnected ==
  (fn = "heuristic_search" /\ PositiveCapacitors) =>
    \A k \in 1..Len(generated) : ConnectedGraph(generated[k])

\* C27: in every ProgressUpdate of enumerate_sp_topologies current <= total,
\* the current values of one call never decrease, the completion update
\* included, and the completion update has current = total = the number of
\* trees returned.
C27_EnumerateProgress ==
  fn = "enumerate_sp_topologies" =>
    /\ \A k \in 1..Len(updates) :
         /\ updates[k].current <= updates[k].total
         /\ k > 1 => updates[k - 1].current <= updates[k].current
    /\ (pc = "done" /\ args.progress_cb) =>
         /\ updates # <<>>
         /\ updates[Len(updates)] = ProgressUpdate(Len(result), Len(result))

\* C28: is_sp_reducible terminates on every multigraph with positive
\* weights: each pass that applies a rule strictly decreases the number of
\* edges of the working graph, so there are at most as many rule-applying
\* passes as the graph has edges, and then a pass that applies none.
C28_ReduceTerminates ==
  ReducibleReturned =>
    LET trace == result.trace
    IN  /\ trace[1] = Len(args.graph.edges)
        /\ \A k \in 1..(Len(trace) - 1) : trace[k + 1] < trace[k]
        /\ Len(trace) - 1 <= Len(args.graph.edges)
        /\ Len(trace) - 1 >= (IF result.parallel > 0 THEN 1 ELSE 0)
                               + result.series

C28_Witness ==
  /\ ReducibleReturned
  /\ result.none
  /\ Len(args.graph.nodes) = 4
  /\ result.trace = <<5, 2, 1>>

\* two parallel edges replaced by one edge with their sum
MergePair(G, p) ==
  [nodes |-> G.nodes,
   edges |-> WithoutEdges(G, {p[1], p[2]})
             \o <<Edge(G.edges[p[1]].u, G.edges[p[1]].v,
                       [capacity |-> RAdd(G.edges[p[1]].data.capacity,
                                          G.edges[p[2]].data.capacity)])>>]

\* the positions of the edges at node n
IncidentEdges(G, n) == {k \in 1..Len(G.edges) : n \in {G.edges[k].u, G.edges[k].v}}

\* the node n between two edges replaced by one edge between its neighbours
SeriesAt(G, n) ==
  LET i == CHOOSE k \in IncidentEdges(G, n) : \A j \in IncidentEdges(G, n) : k <= j
      j == CHOOSE k \in IncidentEdges(G, n) : \A l \in IncidentEdges(G, n) : l <= k
      u == CHOOSE x \in {G.edges[i].u, G.edges[i].v} : x # n
      v == CHOOSE x \in {G.edges[j].u, G.edges[j].v} : x # n
      c1 == G.edges[i].data.capacity
      c2 == G.edges[j].data.capacity
  IN  [nodes |-> SelectSeq(G.nodes, LAMBDA m : m # n),
       edges |-> WithoutEdges(G, {i, j})
                 \o <<Edge(u, v, [capacity |->
                        RDiv(RMul(c1, c2), RAdd(c1, c2))])>>]

\* the node n deleted with the edges at it
Pruned(G, n) ==
  [nodes |-> SelectSeq(G.nodes, LAMBDA m : m # n),
   edges |-> WithoutEdges(G, IncidentEdges(G, n))]

\* the non-terminal nodes of degree 2: the nodes the series rule applies to
DegreeTwoNodes(G, a, b) ==
  {n \in SeqToSet(G.nodes) \ {a, b} : Cardinality(IncidentEdges(G, n)) = 2}

\* the series rule at n: two distinct neighbours are joined, a node with one
\* neighbour is deleted
SeriesRule(G, n) ==
  IF Cardinality(Neighbors(G, n)) = 2 THEN SeriesAt(G, n) ELSE Pruned(G, n)

\* what is returned for a graph no rule applies to
OutcomeOf(H, a, b) ==
  IF SingleEdge(H, a, b) THEN <<"value", H.edges[1].data.capacity>>
  ELSE <<"None">>

\* the outcomes of applying one rule at a time, any rule that applies, until
\* none applies
RECURSIVE AnyOrder(_, _, _)
AnyOrder(G, a, b) ==
  The({IF next = {} THEN {OutcomeOf(G, a, b)}
       ELSE UNION {AnyOrder(H, a, b) : H \in next} :
         next \in {{MergePair(G, p) : p \in ParallelPairs(G)}
                    \cup {SeriesRule(G, n) : n \in DegreeTwoNodes(G, a, b)}}})

\* the outcomes of the orders the loop can take with some order of the nodes:
\* the bundles are merged first, in any order, then the series rule is
\* applied at any one node of degree 2
RECURSIVE LoopOrder(_, _, _)
LoopOrder(G, a, b) ==
  IF ParallelPairs(G) # {}
  THEN UNION {LoopOrder(MergePair(G, p), a, b) : p \in ParallelPairs(G)}
  ELSE IF DegreeTwoNodes(G, a, b) # {}
  THEN UNION {LoopOrder(SeriesRule(G, n), a, b) :
                n \in DegreeTwoNodes(G, a, b)}
  ELSE {OutcomeOf(G, a, b)}

\* what the call returned
ReturnedOutcome == IF result.none THEN <<"None">> ELSE <<"value", result.value>>

AboutToGenerate ==
  /\ fn = "heuristic_search" /\ pc = "searching"
  /\ pos <= args.iterations
  /\ args.max_internal_nodes >= 0

\* C30: for a non-empty capacitor list and max_internal_nodes >= 0
\* generate_connected_graph never returns None: after _ensure_connected the
\* first graph generated has a path between A and B, so the first of the 10
\* attempts returns it and heuristic_search discards no iteration for lack
\* of connectivity.
C30_FirstAttemptSucceeds ==
  /\ AboutToGenerate =>
       LET first == generate_connected_graph(args.capacitors,
                      args.max_internal_nodes, rng, hash_order, 1)
       IN  /\ ~first.none
           /\ has_path(first.graph, "A", "B")
           /\ first = generate_connected_graph(args.capacitors,
                        args.max_internal_nodes, rng, hash_order, MaxAttempts)
  /\ (fn = "heuristic_search" /\ pc \in {"searching", "done"}) =>
       Len(generated) = pos - 1

C30_Witness ==
  /\ AboutToGenerate
  /\ ~has_path(generate_random_graph(args.capacitors,
                 args.max_internal_nodes, rng).graph, "A", "B")
  /\ ~generate_connected_graph(args.capacitors, args.max_internal_nodes,
                               rng, hash_order, 1).none

=========================================================================
